---- MODULE Spec2Model ----
(***************************************************************************)
(* Recording aggregation and bulk-operation pipeline of the recording      *)
(* explorer: the client pagination loops (useRecordings.ts), the meetings  *)
(* handler of the worker with its user enumeration and per-user fan-out,   *)
(* the generic worker pools, and the sequential bulk delete.               *)
(*                                                                         *)
(* JavaScript runs to completion between awaits, so every action below is  *)
(* the code between two suspension points of one async function.           *)
(***************************************************************************)
EXTENDS Integers, Sequences, FiniteSets, Bags, TLC

VARIABLES
    \* ---- client: useRecordings hook ------------------------------------
    source,         \* SourceFilter chosen in the UI
    demoMode,       \* App state demoMode
    fetchPc,        \* position of fetchRecordings: idle / paging / done
    loading,        \* useState loading
    error,          \* useState error (NULL or a message kind)
    data,           \* useState data (None or the ApiResponse)
    allRecs,        \* local allRecs of the running pagination loop
    nextToken,      \* local nextToken of the running pagination loop
    loops,          \* local loops of the running pagination loop
    lastPage,       \* next_page_token of the page received last, as sent by upstream
    requests,       \* number of page requests issued by the running loop
    result,         \* value returned by fetchAll*Recordings (None before return)
    \* ---- worker: handleGetMeetingRecordings ----------------------------
    hPc,            \* position of the handler: token, enum, fanout, or the return taken
    account,        \* the upstream account the handler lists users and recordings of
    debug,          \* query parameter debug
    ownerFilter,    \* query parameter owner_email, lower-cased
    topicFilter,    \* query parameter topic, lower-cased
    q,              \* query parameter q, lower-cased
    users,          \* enumerated users
    nextPageToken,  \* cursor of the user enumeration loop
    idx,            \* shared index of the fan-out
    workers,        \* per worker: the index of the user whose response it awaits, 0 once returned
    meetings,       \* collected meetings
    errors,         \* collected per-user errors
    perUserSummary, \* collected per-user summaries
    outcome,        \* what upstream answered for each user
    fetched,        \* number of recordings requests issued per user
    response,       \* the Response returned by the handler (None before)
    \* ---- worker: handleDownloadRecording -------------------------------
    dlPc,           \* position of the download proxy: idle, request, token, fetch, threw, or the return taken
    target,         \* query parameter url of the request
    zoomUrl,        \* new URL(target) (None before, and when the parse threw)
    tokenCalls,     \* number of calls of getZoomAccessToken made by the proxy
    upstreamFetches,\* the requests the proxy sent upstream, in order
    dlResponse,     \* the Response returned by the proxy (None before)
    \* ---- client: runLimited and the analytics effect -------------------
    rlPc,           \* position of runLimited: off (not mounted), idle, running, done
    queue,          \* local queue of runLimited: the tasks not yet taken
    rlWorkers,      \* per puller of runLimited: the task it awaits, 0 once returned
    rlStarted,      \* per task of runLimited: how many times it was started
    anPc,           \* position of the analytics effect run: off, idle, running, done
    missing,        \* local missing of the effect run: number of meeting ids to fetch
    anIdx,          \* shared idx of the analytics workers
    anWorkers,      \* per analytics worker: the index it awaits, 0 once returned
    cancelled,      \* the cancelled flag set by the effect cleanup
    analyticsByMeetingId, \* meeting ids that hold stats
    identityPc,     \* position of loadMeetingIdentity: off, await (fetch in flight), done
    meetingIdentity,\* useState meetingIdentity (None or the identity)
    \* ---- client: App selection and bulk delete -------------------------
    uiPc,           \* off (not mounted) or mounted
    selectedKeys,   \* useSelection: the set of selected record keys
    showDeleteModal,\* useState showDeleteModal
    pendingDelete,  \* useState pendingDelete
    deleting,       \* useState deleting
    deleteProgress, \* useState deleteProgress (None or {total, done})
    deleteMessage,  \* useState deleteMessage
    batches,        \* the calls of handleConfirmDelete, each with its locals
    sent,           \* the delete requests issued so far, in order
    inFlight,       \* number of delete requests awaiting their response
    timers,         \* pending setTimeout callbacks that discard deleteProgress
    upstream,       \* the records the provider still holds
    \* ---- client: App table view ----------------------------------------
    pageIndex,      \* useState pageIndex
    pageSize,       \* useState pageSize
    query,          \* useState query: the search text
    autoDeleteFilter, \* useState autoDeleteFilter: all / auto / manual
    searches,       \* while a search is awaited, the fetchRecordings calls of the searches
                    \* in order of submission: the source each was called for, its position
    \* ---- client: the cursor-paged view of App.tsx ----------------------
    appSource,      \* useState source: phone / meetings / both
    appLoading,     \* useState loading
    appError,       \* useState error (NULL or a message kind)
    appData,        \* useState data (None or the page shown: the request that produced it)
    appNextToken,   \* useState nextToken
    prevTokens,     \* useState prevTokens
    currentToken,   \* useState currentToken
    appFetch        \* the fetchRecordings call awaiting its responses (None when there is none):
                    \* the source it was called for and its tokenOverride

clientVars == <<source, demoMode, fetchPc, loading, error, data, allRecs,
                nextToken, loops, lastPage, requests, result>>
handlerVars == <<hPc, account, debug, ownerFilter, topicFilter, q, users, nextPageToken, idx, workers, meetings,
                 errors, perUserSummary, outcome, fetched, response,
                 dlPc, target, zoomUrl, tokenCalls, upstreamFetches, dlResponse>>
meetingsVars == <<hPc, account, debug, ownerFilter, topicFilter, q, users, nextPageToken, idx, workers, meetings,
                  errors, perUserSummary, outcome, fetched, response>>
proxyVars == <<dlPc, target, zoomUrl, tokenCalls, upstreamFetches, dlResponse>>
poolVars == <<rlPc, queue, rlWorkers, rlStarted, anPc, missing, anIdx,
              anWorkers, cancelled, analyticsByMeetingId, identityPc,
              meetingIdentity>>
identityVars == <<identityPc, meetingIdentity>>
deleteVars == <<uiPc, selectedKeys, showDeleteModal, pendingDelete, deleting,
                deleteProgress, deleteMessage, batches, sent, inFlight,
                timers, upstream, pageIndex, pageSize, query,
                autoDeleteFilter, searches>>
viewVars == <<pageIndex, pageSize, query, autoDeleteFilter, searches>>
legacyVars == <<appSource, appLoading, appError, appData, appNextToken,
                prevTokens, currentToken, appFetch>>
vars == <<clientVars, handlerVars, poolVars, deleteVars, legacyVars>>
notClient == <<handlerVars, poolVars, deleteVars, legacyVars>>
notHandler == <<clientVars, poolVars, deleteVars, legacyVars>>
notPools == <<clientVars, handlerVars, deleteVars, legacyVars>>
notLegacy == <<clientVars, handlerVars, poolVars, deleteVars>>

\* number of fetchRecordings calls of a search awaiting their data
searching == Cardinality({k \in DOMAIN searches : searches[k].pc = "await"})

\* ---------------------------------------------------------------------
\* JavaScript values
\* ---------------------------------------------------------------------
NULL == "null"
UNDEFINED == "undefined"

\* null where an object is expected
None == [null |-> TRUE]

\* truthiness of a token-like value: undefined, null and "" are falsy
Truthy(x) == x \notin {NULL, UNDEFINED, ""}

\* a ?? b
Coalesce(a, b) == IF a \in {NULL, UNDEFINED} THEN b ELSE a

Min(a, b) == IF a < b THEN a ELSE b

\* ---------------------------------------------------------------------
\* Bounds of the model
\* ---------------------------------------------------------------------
\* most records the upstream holds for one search
MaxRecs == 2

\* continuation tokens the upstream can issue
Tokens == {"t1", "t2"}

\* what a page can carry in next_page_token: absent, empty, or a token
TokenValues == {UNDEFINED, ""} \cup Tokens

\* ---------------------------------------------------------------------
\* Program constants
\* ---------------------------------------------------------------------
MAX_PHONE_PAGES == 20
MAX_CC_PAGES == 50

\* ---------------------------------------------------------------------
\* Client: fetchJson and the two pagination loops
\* ---------------------------------------------------------------------
\* What fetchJson can see for one page request: a 2xx JSON page carrying
\* n records and a next_page_token, a non-2xx response, or a 2xx body that
\* res.json() cannot parse.
PageResponses ==
    [kind : {"ok"}, n : 0..1, next_page_token : TokenValues]
        \cup {[kind |-> "non2xx"], [kind |-> "nonjson"]}

\* fetchJson: throws on !res.ok and when res.json() rejects
fetchJson(r) == IF r.kind = "ok" THEN "value" ELSE "throw"

\* fetchRecordings up to the first await: setLoading(true), setError(null),
\* then the branch on source enters the pagination loop of that source,
\* which issues its first page request.
fetchRecordingsStart ==
    /\ fetchPc = "idle"
    /\ ~demoMode
    /\ source \in {"phone", "cc"}
    /\ fetchPc' = source
    /\ loading' = TRUE
    /\ error' = NULL
    /\ allRecs' = <<>>
    /\ nextToken' = NULL
    /\ loops' = 0
    /\ lastPage' = NULL
    /\ requests' = 1
    /\ result' = None
    /\ UNCHANGED <<source, demoMode, data>>
    /\ UNCHANGED notClient

\* value returned by a pagination loop
LoopResult(recs) == [from |-> "from", to |-> "to", recordings |-> recs]

\* setData of fetchRecordings after the loop returned
SetDataOf(res) ==
    [from |-> res.from, to |-> res.to,
     total_records |-> Len(res.recordings),
     next_page_token |-> NULL, recordings |-> res.recordings]

\* the loop test with the cap compared one page late
LoopContinuesOffByOne(tok, n, cap) == Truthy(tok) /\ n <= cap

\* the loop test of the do/while: while (nextToken && loops < MAX_..._PAGES)
LoopContinues(tok, n, cap) == Truthy(tok) /\ n < cap

\* the records of the page put in front of those collected
UnshiftPage(all, recs) == recs \o all

\* allRecs.push(...recs)
PushPage(all, recs) == all \o recs

\* One iteration of a do/while pagination loop with page cap `cap`, from
\* the request to the loop test, and what follows when the loop ends:
\* the return, setData and setLoading(false) of fetchRecordings; or, when
\* fetchJson throws, the catch and finally of fetchRecordings.
PageStep(src, cap, r) ==
    /\ fetchPc = src
    /\ IF fetchJson(r) = "throw"
       THEN /\ error' = r.kind
            /\ loading' = FALSE
            /\ fetchPc' = "done"
            /\ UNCHANGED <<allRecs, nextToken, loops, lastPage, requests,
                           result, data>>
       ELSE /\ Len(allRecs) + r.n <= MaxRecs
            /\ LET recs == [k \in 1..r.n |->
                              [id |-> Len(allRecs) + k, cursor |-> nextToken,
                               source |-> src]]
                   all == PushPage(allRecs, recs)
                   tok == Coalesce(r.next_page_token, NULL)
                   n == loops + 1
               IN /\ allRecs' = all
                  /\ nextToken' = tok
                  /\ lastPage' = r.next_page_token
                  /\ loops' = n
                  /\ IF LoopContinues(tok, n, cap)
                     THEN /\ requests' = requests + 1
                          /\ UNCHANGED <<fetchPc, result, data, loading>>
                     ELSE /\ result' = LoopResult(all)
                          /\ UNCHANGED requests
                          /\ data' = SetDataOf(LoopResult(all))
                          /\ loading' = FALSE
                          /\ fetchPc' = "done"
            /\ UNCHANGED error
    /\ UNCHANGED <<source, demoMode>>
    /\ UNCHANGED notClient

\* What the upstream can answer to the request the worker forwards for one
\* page: a 2xx JSON page, a non-2xx response, or a 2xx body that is not
\* JSON.
UpstreamPageResponses ==
    [kind : {"ok"}, n : 0..1, next_page_token : TokenValues]
        \cup {[kind |-> "non2xx"], [kind |-> "nonjson"]}

\* handleGetRecordings of the worker, which answers /api/phone/recordings:
\* the upstream status is passed on with the parsed body, and a body that
\* JSON.parse rejects is replaced by { raw: text }, a JSON object without
\* recordings and without next_page_token
handleGetRecordings(up) ==
    IF up.kind = "nonjson"
    THEN [kind |-> "ok", n |-> 0, next_page_token |-> UNDEFINED]
    ELSE up

fetchAllPhoneRecordings ==
    \E up \in UpstreamPageResponses :
        PageStep("phone", MAX_PHONE_PAGES, handleGetRecordings(up))

fetchAllContactCenterRecordings ==
    \E r \in PageResponses : PageStep("cc", MAX_CC_PAGES, r)

\* the cursor-paged view as its useState calls leave it, no fetch started
LegacyIdle ==
    /\ appSource = "phone"
    /\ appLoading = FALSE
    /\ appError = NULL
    /\ appData = None
    /\ appNextToken = NULL
    /\ prevTokens = <<>>
    /\ currentToken = NULL
    /\ appFetch = None

\* no request to the download proxy
ProxyIdle ==
    /\ dlPc = "idle"
    /\ target = [kind |-> "null"]
    /\ zoomUrl = None
    /\ tokenCalls = 0
    /\ upstreamFetches = <<>>
    /\ dlResponse = None

\* no request to the meetings handler
MeetingsHandlerIdle ==
    /\ hPc = "idle"
    /\ account = "main"
    /\ debug = ""
    /\ ownerFilter = <<>>
    /\ topicFilter = <<>>
    /\ q = <<>>
    /\ users = <<>>
    /\ nextPageToken = ""
    /\ idx = 0
    /\ workers = <<>>
    /\ meetings = EmptyBag
    /\ errors = EmptyBag
    /\ perUserSummary = EmptyBag
    /\ outcome = <<>>
    /\ fetched = <<>>
    /\ response = None

\* the handlers of the worker are not running in the client specification
HandlerIdle == MeetingsHandlerIdle /\ ProxyIdle

ClientIdle ==
    /\ fetchPc = "idle"
    /\ loading = FALSE
    /\ error = NULL
    /\ data = None
    /\ allRecs = <<>>
    /\ nextToken = NULL
    /\ loops = 0
    /\ lastPage = NULL
    /\ requests = 0
    /\ result = None

\* no pool is running
PoolsIdle ==
    /\ rlPc = "off"
    /\ queue = <<>>
    /\ rlWorkers = <<>>
    /\ rlStarted = <<>>
    /\ anPc = "off"
    /\ missing = 0
    /\ anIdx = 0
    /\ anWorkers = <<>>
    /\ cancelled = FALSE
    /\ analyticsByMeetingId = {}
    /\ identityPc = "off"
    /\ meetingIdentity = None

\* the table view of a freshly mounted App: first page, empty search
\* text, auto-delete filter "all", no search in flight
ViewInit ==
    /\ pageIndex = 0
    /\ query = <<>>
    /\ autoDeleteFilter = "all"
    /\ searches = <<>>

\* the App component is not mounted
AppIdle ==
    /\ uiPc = "off"
    /\ selectedKeys = {}
    /\ showDeleteModal = FALSE
    /\ pendingDelete = <<>>
    /\ deleting = FALSE
    /\ deleteProgress = None
    /\ deleteMessage = None
    /\ batches = <<>>
    /\ sent = <<>>
    /\ inFlight = 0
    /\ timers = 0
    /\ upstream = <<>>
    /\ pageSize = 1
    /\ ViewInit

InitPage ==
    /\ source \in {"phone", "cc"}
    /\ demoMode = FALSE
    /\ ClientIdle
    /\ HandlerIdle
    /\ LegacyIdle
    /\ PoolsIdle
    /\ AppIdle

NextPage ==
    \/ fetchRecordingsStart
    \/ fetchAllPhoneRecordings
    \/ fetchAllContactCenterRecordings

SpecPage == InitPage /\ [][NextPage]_vars

\* ---------------------------------------------------------------------
\* Text: a string is a sequence of characters; an absent (undefined)
\* string field is NoText
\* ---------------------------------------------------------------------
NoText == <<UNDEFINED>>

\* s || ""
OrEmpty(s) == IF s = NoText THEN <<>> ELSE s

\* the upper-case letters
UpperCase ==
    {"A", "B", "C", "D", "E", "F", "G", "H", "I",
     "J", "K", "L", "M", "N", "O", "P", "Q", "R",
     "S", "T", "U", "V", "W", "X", "Y", "Z"}

\* the lower-case form of one character
Lower(c) ==
    IF c \notin UpperCase THEN c
    ELSE CASE c = "A" -> "a" []
         c = "B" -> "b" []
         c = "C" -> "c" []
         c = "D" -> "d" []
         c = "E" -> "e" []
         c = "F" -> "f" []
         c = "G" -> "g" []
         c = "H" -> "h" []
         c = "I" -> "i" []
         c = "J" -> "j" []
         c = "K" -> "k" []
         c = "L" -> "l" []
         c = "M" -> "m" []
         c = "N" -> "n" []
         c = "O" -> "o" []
         c = "P" -> "p" []
         c = "Q" -> "q" []
         c = "R" -> "r" []
         c = "S" -> "s" []
         c = "T" -> "t" []
         c = "U" -> "u" []
         c = "V" -> "v" []
         c = "W" -> "w" []
         c = "X" -> "x" []
         c = "Y" -> "y" []
         c = "Z" -> "z"

\* String.prototype.toLowerCase
toLowerCase(s) == [i \in 1..Len(s) |-> Lower(s[i])]

\* String.prototype.includes
includes(h, n) ==
    \E i \in 0..(Len(h) - Len(n)) : SubSeq(h, i + 1, i + Len(n)) = n

\* [a, b, c].join(" ")
join3(a, b, c) == a \o <<" ">> \o b \o <<" ">> \o c

\* ---------------------------------------------------------------------
\* Worker: handleGetMeetingRecordings
\* ---------------------------------------------------------------------
\* fixed concurrency of the per-user fan-out
concurrency == 5

\* most active users the upstream account holds
MaxUsers == 6

\* most per-user recordings requests that fail in one handler run
MaxFail == 2

\* a worker that has left its loop holds no user index
Returned(i) == i = 0

\* the upstream accounts: the main one, and the account of two users with
\* one meeting each of the free-text search scenario
Accounts == {"main", "scenarioD"}

\* "bob@x.com" and "onboard-bot@x.com"
BobEmail == <<"b", "o", "b", "@", "x", ".", "c", "o", "m">>
OnboardBotEmail ==
    <<"o", "n", "b", "o", "a", "r", "d", "-", "b", "o", "t", "@", "x", ".", "c", "o", "m">>

\* "Onboarding Call" and "Standup"
OnboardingCall ==
    <<"O", "n", "b", "o", "a", "r", "d", "i", "n", "g", " ", "C", "a", "l", "l">>
Standup == <<"S", "t", "a", "n", "d", "u", "p">>

\* number of active users the upstream account holds at most
AccountSize == IF account = "scenarioD" THEN 2 ELSE MaxUsers

\* the k-th active user of the upstream account
UpstreamUser(k) ==
    IF account = "scenarioD"
    THEN [id |-> k, email |-> IF k = 1 THEN BobEmail ELSE OnboardBotEmail]
    ELSE [id |-> k,
          email |-> IF k % 2 = 1 THEN <<"a", "@", "x">> ELSE <<"B", "o", "b">>]

\* the meetings the upstream holds for the k-th user (data.meetings)
MeetingsOf(k) ==
    IF account = "scenarioD"
    THEN << [id |-> 10 * k, topic |-> IF k = 1 THEN OnboardingCall ELSE Standup,
             host_id |-> <<"h">>] >>
    ELSE CASE k % 3 = 1 -> << [id |-> 10 * k, topic |-> <<"A", "b">>, host_id |-> <<"h">>] >>
           [] k % 3 = 2 -> << [id |-> 10 * k, topic |-> NoText, host_id |-> <<"x">>],
                              [id |-> 10 * k + 1, topic |-> <<"b", "o">>, host_id |-> NoText] >>
           [] OTHER -> << >>

\* what the upstream can answer to one per-user recordings request:
\*   ok        2xx, JSON body with the user's meetings
\*   non2xx    !res.ok
\*   nonjson   2xx, JSON.parse(text) throws
\*   throw     fetch() or res.text() rejects, or the JSON body is null
\*   nullentry 2xx, JSON body whose meetings list ends with a null entry
UserOutcomes == {"ok", "non2xx", "nonjson", "throw", "nullentry"}

Pending == "pending"

Failed(o) == o \notin {"ok", Pending}

\* raw query parameters of one request
Requests ==
    { [debug |-> "", owner_email |-> <<>>, topic |-> <<>>, q |-> <<>>],
      [debug |-> "", owner_email |-> <<"A">>, topic |-> <<>>, q |-> <<>>],
      [debug |-> "", owner_email |-> <<>>, topic |-> <<"B">>, q |-> <<"x">>],
      [debug |-> "", owner_email |-> <<"B">>, topic |-> <<"b">>, q |-> <<"H">>],
      [debug |-> "users", owner_email |-> <<>>, topic |-> <<>>, q |-> <<>>],
      [debug |-> "user-recordings", owner_email |-> <<>>, topic |-> <<"b">>, q |-> <<>>] }

\* "onboarding" and "Onboard"
Onboarding == <<"o", "n", "b", "o", "a", "r", "d", "i", "n", "g">>
Onboard == <<"O", "n", "b", "o", "a", "r", "d">>

\* the free-text searches of the scenario
ScenarioRequests ==
    { [debug |-> "", owner_email |-> <<>>, topic |-> <<>>, q |-> Onboarding],
      [debug |-> "", owner_email |-> <<>>, topic |-> <<>>, q |-> Onboard] }

\* statuses of a failing upstream response
ErrorStatuses == {429, 503}

UsersPageResponses ==
    [kind : {"ok"}, n : 0..2, next_page_token : TokenValues]
        \cup [kind : {"non2xx"}, status : ErrorStatuses]
        \cup {[kind |-> "nonjson"]}

\* new Response(JSON.stringify(body), { status })
Response(status, body) == [status |-> status, body |-> body]

\* the catch of the handler: 500 with the error message
CatchAll == Response(500, [error |-> TRUE, status |-> 500])

\* await getZoomAccessToken(env) resolves and the first users page is
\* requested, or it throws into the catch of the handler
getZoomAccessToken ==
    /\ hPc = "token"
    /\ \E ok \in BOOLEAN :
          IF ok
          THEN /\ hPc' = "enum"
               /\ UNCHANGED response
          ELSE /\ hPc' = "ret_catch"
               /\ response' = CatchAll
    /\ UNCHANGED <<account, debug, ownerFilter, topicFilter, q, users, nextPageToken,
                   idx, workers, meetings, errors, perUserSummary, outcome,
                   fetched>>
    /\ UNCHANGED proxyVars
    /\ UNCHANGED notHandler

\* a failed users page answered with status 500
UsersFailedResponse500(status) == Response(500, [error |-> TRUE, status |-> 500])

\* if (!usersRes.ok): the upstream status and an error body
UsersFailedResponse(status) == Response(status, [error |-> TRUE, status |-> status])

\* the debug view of users is never taken
DebugUsersNever(dbg) == FALSE

\* if (debug === "users")
DebugUsersOnly(dbg) == dbg = "users"

\* debug === "users": the user list only
DebugUsersResponse(us) ==
    Response(200, [from |-> "from", to |-> "to", total_users |-> Len(us),
                   users |-> us])

\* !users.length: the empty result
NoUsersResponse ==
    Response(200, [from |-> "from", to |-> "to", next_page_token |-> "",
                   page_count |-> 0, page_size |-> 0, total_records |-> 0,
                   meetings |-> EmptyBag])

\* one worker per user, the clamp to the concurrency left out
NumWorkersUnclamped(n) == n

\* Array.from({ length: Math.min(concurrency, users.length) }, () => worker())
\* each worker() runs to its first await: i = idx++, fetch for users[i]
NumWorkers(n) == Min(concurrency, n)

\* One iteration of the do/while of the user enumeration, from the response
\* of the users request to the loop test; when the loop ends, what follows
\* up to the next await: the debug=users return, the empty return, or the
\* start of the workers.
UsersPage(r) ==
    /\ hPc = "enum"
    /\ CASE r.kind = "non2xx" ->
              /\ hPc' = "ret_users_failed"
              /\ response' = UsersFailedResponse(r.status)
              /\ UNCHANGED <<users, nextPageToken, idx, workers, outcome, fetched>>
         [] r.kind = "nonjson" ->
              /\ hPc' = "ret_catch"
              /\ response' = CatchAll
              /\ UNCHANGED <<users, nextPageToken, idx, workers, outcome, fetched>>
         [] OTHER ->
              /\ Len(users) + r.n <= AccountSize
              /\ LET us == users \o [k \in 1..r.n |-> UpstreamUser(Len(users) + k)]
                     tok == IF Truthy(r.next_page_token) THEN r.next_page_token ELSE ""
                     nW == NumWorkers(Len(us))
                 IN /\ users' = us
                    /\ nextPageToken' = tok
                    /\ IF Truthy(tok)
                       THEN UNCHANGED <<hPc, response, idx, workers, outcome, fetched>>
                       ELSE IF DebugUsersOnly(debug)
                       THEN /\ hPc' = "ret_debug_users"
                            /\ response' = DebugUsersResponse(us)
                            /\ UNCHANGED <<idx, workers, outcome, fetched>>
                       ELSE IF Len(us) = 0
                       THEN /\ hPc' = "ret_no_users"
                            /\ response' = NoUsersResponse
                            /\ UNCHANGED <<idx, workers, outcome, fetched>>
                       ELSE /\ hPc' = "fanout"
                            /\ workers' = [w \in 1..nW |-> w]
                            /\ idx' = nW
                            /\ outcome' = [u \in 1..Len(us) |-> Pending]
                            /\ fetched' = [u \in 1..Len(us) |-> IF u <= nW THEN 1 ELSE 0]
                            /\ UNCHANGED response
    /\ UNCHANGED <<account, debug, ownerFilter, topicFilter, q, meetings, errors,
                   perUserSummary>>
    /\ UNCHANGED proxyVars
    /\ UNCHANGED notHandler

UsersEnumeration == \E r \in UsersPageResponses : UsersPage(r)

\* arr.push(e)
Push(arr, e) == arr (+) SetToBag({e})

RECURSIVE PushAll(_, _)
PushAll(arr, es) ==
    IF es = <<>> THEN arr ELSE PushAll(Push(arr, Head(es)), Tail(es))

\* the entry pushed on meetings for meeting m of user
MeetingEntry(m, user) ==
    [id |-> m.id, topic |-> m.topic, host_id |-> m.host_id,
     owner_email |-> user.email]

\* the body of worker() with a catch that drops the error of a rejected
\* request instead of recording it
WorkerBodyDropsThrow(u, o) ==
    LET user == users[u]
        ms == [k \in 1..Len(MeetingsOf(user.id)) |->
                  MeetingEntry(MeetingsOf(user.id)[k], user)]
        err(kind) == [userId |-> user.id, userEmail |-> user.email, kind |-> kind]
        sum(n) == [userId |-> user.id, userEmail |-> user.email, meetingCount |-> n]
    IN CASE o = "ok" ->
              <<errors, Push(perUserSummary, sum(Len(ms))), PushAll(meetings, ms)>>
         [] o = "nullentry" ->
              <<Push(errors, err("throw")), Push(perUserSummary, sum(Len(ms) + 1)),
                PushAll(meetings, ms)>>
         [] o = "throw" ->
              <<errors, perUserSummary, meetings>>
         [] OTHER ->
              <<Push(errors, err(o)), perUserSummary, meetings>>

\* the body of worker() with meetings assigned the meetings of the user
\* instead of extended by them: the worker that resumes last wins
WorkerBodyLastWriterWins(u, o) ==
    LET user == users[u]
        ms == [k \in 1..Len(MeetingsOf(user.id)) |->
                  MeetingEntry(MeetingsOf(user.id)[k], user)]
        err(kind) == [userId |-> user.id, userEmail |-> user.email, kind |-> kind]
        sum(n) == [userId |-> user.id, userEmail |-> user.email, meetingCount |-> n]
    IN CASE o = "ok" ->
              <<errors, Push(perUserSummary, sum(Len(ms))), PushAll(EmptyBag, ms)>>
         [] o = "nullentry" ->
              <<Push(errors, err("throw")), Push(perUserSummary, sum(Len(ms) + 1)),
                PushAll(EmptyBag, ms)>>
         [] OTHER ->
              <<Push(errors, err(o)), perUserSummary, meetings>>

\* the body of the try of worker() for the response o to the request of
\* users[u], with its catch: the new <<errors, perUserSummary, meetings>>
WorkerBody(u, o) ==
    LET user == users[u]
        ms == [k \in 1..Len(MeetingsOf(user.id)) |->
                  MeetingEntry(MeetingsOf(user.id)[k], user)]
        err(kind) == [userId |-> user.id, userEmail |-> user.email, kind |-> kind]
        sum(n) == [userId |-> user.id, userEmail |-> user.email, meetingCount |-> n]
    IN CASE o = "ok" ->
              <<errors, Push(perUserSummary, sum(Len(ms))), PushAll(meetings, ms)>>
         [] o = "nullentry" ->
              <<Push(errors, err("throw")), Push(perUserSummary, sum(Len(ms) + 1)),
                PushAll(meetings, ms)>>
         [] OTHER ->
              <<Push(errors, err(o)), perUserSummary, meetings>>

\* worker w resumes with the response to its request: the try/catch body,
\* then the loop test and, when a user is left, i = idx++ and the next fetch
worker(w, o) ==
    /\ hPc = "fanout"
    /\ ~Returned(workers[w])
    /\ ~Failed(o) \/ Cardinality({u \in DOMAIN outcome : Failed(outcome[u])}) < MaxFail
    /\ LET u == workers[w]
           b == WorkerBody(u, o)
       IN /\ errors' = b[1]
          /\ perUserSummary' = b[2]
          /\ meetings' = b[3]
          /\ outcome' = [outcome EXCEPT ![u] = o]
          /\ IF idx < Len(users)
             THEN /\ workers' = [workers EXCEPT ![w] = idx + 1]
                  /\ idx' = idx + 1
                  /\ fetched' = [fetched EXCEPT ![idx + 1] = @ + 1]
             ELSE /\ workers' = [workers EXCEPT ![w] = 0]
                  /\ UNCHANGED <<idx, fetched>>
    /\ UNCHANGED <<hPc, account, debug, ownerFilter, topicFilter, q, users,
                   nextPageToken, response>>
    /\ UNCHANGED proxyVars
    /\ UNCHANGED notHandler

FanOut == \E w \in DOMAIN workers : \E o \in UserOutcomes : worker(w, o)

\* filter of a collected array
BagFilter(b, keep) == [e \in {x \in DOMAIN b : x \in keep} |-> b[e]]

ownerMatches(m, f) == includes(toLowerCase(OrEmpty(m.owner_email)), f)
topicMatches(m, f) == includes(toLowerCase(OrEmpty(m.topic)), f)
\* a q filter that looks at the topic only
qMatchesTopicOnly(m, f) == includes(toLowerCase(OrEmpty(m.topic)), f)

qMatches(m, f) ==
    includes(toLowerCase(join3(OrEmpty(m.topic), OrEmpty(m.owner_email),
                               OrEmpty(m.host_id))), f)

\* if (ownerFilter) filtered = filtered.filter(owner_email includes it)
ownerFilterStep(ms, f) ==
    IF f # <<>> THEN BagFilter(ms, {m \in DOMAIN ms : ownerMatches(m, f)}) ELSE ms

\* if (topicFilter) filtered = filtered.filter(topic includes it)
topicFilterStep(ms, f) ==
    IF f # <<>> THEN BagFilter(ms, {m \in DOMAIN ms : topicMatches(m, f)}) ELSE ms

\* if (q) filtered = filtered.filter(the joined fields include it)
qFilterStep(ms, f) ==
    IF f # <<>> THEN BagFilter(ms, {m \in DOMAIN ms : qMatches(m, f)}) ELSE ms

\* a chain that applies the first non-empty filter only
ApplyFiltersFirstOnly(ms, of, tf, qf) ==
    IF of # <<>> THEN ownerFilterStep(ms, of)
    ELSE IF tf # <<>> THEN topicFilterStep(ms, tf)
    ELSE qFilterStep(ms, qf)

\* 4) Apply search filters (owner_email, topic, q)
ApplyFilters(ms, of, tf, qf) ==
    qFilterStep(topicFilterStep(ownerFilterStep(ms, of), tf), qf)

\* debug === "user-recordings": per-user counts only
DebugUserRecordingsResponse ==
    LET body == [from |-> "from", to |-> "to", total_users |-> Len(users),
                 per_user |-> perUserSummary]
    IN Response(200, IF errors # EmptyBag THEN body @@ [errors |-> errors] ELSE body)

\* the normal response with total_records counted before the filters
MeetingsResponseUnfilteredTotal ==
    LET filtered == ApplyFilters(meetings, ownerFilter, topicFilter, q)
        totalRecords == BagCardinality(meetings)
        respBody == [from |-> "from", to |-> "to", next_page_token |-> "",
                     page_count |-> IF totalRecords # 0 THEN 1 ELSE 0,
                     page_size |-> totalRecords,
                     total_records |-> totalRecords,
                     meetings |-> filtered]
    IN Response(200, IF errors # EmptyBag
                     THEN respBody @@ [_errors |-> errors] ELSE respBody)

\* the normal response: filtered meetings, total_records, _errors
MeetingsResponse ==
    LET filtered == ApplyFilters(meetings, ownerFilter, topicFilter, q)
        totalRecords == BagCardinality(filtered)
        respBody == [from |-> "from", to |-> "to", next_page_token |-> "",
                     page_count |-> IF totalRecords # 0 THEN 1 ELSE 0,
                     page_size |-> totalRecords,
                     total_records |-> totalRecords,
                     meetings |-> filtered]
    IN Response(200, IF errors # EmptyBag
                     THEN respBody @@ [_errors |-> errors] ELSE respBody)

\* await Promise.all(...) resolves once every worker has returned: the
\* debug=user-recordings return, or the filters and the response
Respond ==
    /\ hPc = "fanout"
    /\ \A w \in DOMAIN workers : Returned(workers[w])
    /\ hPc' = IF debug = "user-recordings" THEN "ret_debug_user_recordings"
               ELSE "ret_meetings"
    /\ response' = IF debug = "user-recordings"
                   THEN DebugUserRecordingsResponse
                   ELSE MeetingsResponse
    /\ UNCHANGED <<account, debug, ownerFilter, topicFilter, q, users, nextPageToken,
                   idx, workers, meetings, errors, perUserSummary, outcome,
                   fetched>>
    /\ UNCHANGED proxyVars
    /\ UNCHANGED notHandler

\* a request arrives: the query parameters are read and the token awaited
InitMeet ==
    /\ source = "meetings"
    /\ demoMode = FALSE
    /\ ClientIdle
    /\ account \in Accounts
    /\ \E rq \in (IF account = "scenarioD" THEN ScenarioRequests ELSE Requests) :
          /\ debug = rq.debug
          /\ ownerFilter = toLowerCase(rq.owner_email)
          /\ topicFilter = toLowerCase(rq.topic)
          /\ q = toLowerCase(rq.q)
    /\ hPc = "token"
    /\ users = <<>>
    /\ nextPageToken = ""
    /\ idx = 0
    /\ workers = <<>>
    /\ meetings = EmptyBag
    /\ errors = EmptyBag
    /\ perUserSummary = EmptyBag
    /\ outcome = <<>>
    /\ fetched = <<>>
    /\ response = None
    /\ ProxyIdle
    /\ LegacyIdle
    /\ PoolsIdle
    /\ AppIdle

NextMeet ==
    \/ getZoomAccessToken
    \/ UsersEnumeration
    \/ FanOut
    \/ Respond

SpecMeet == InitMeet /\ [][NextMeet]_vars

\* ---------------------------------------------------------------------
\* Worker: the download proxy handleDownloadRecording
\* ---------------------------------------------------------------------
\* host names
ZoomHost == <<"z", "o", "o", "m", ".", "u", "s">>
ZoomHostUpper == <<"Z", "O", "O", "M", ".", "U", "S">>
OtherHost == <<"e", "v", "i", "l", ".", "c", "o", "m">>
ZoomPrefixedHost == ZoomHost \o <<".">> \o OtherHost

\* path segments
SegV2 == <<"v", "2">>
SegPhone == <<"p", "h", "o", "n", "e">>
SegRecording == <<"r", "e", "c", "o", "r", "d", "i", "n", "g">>
SegDownload == <<"d", "o", "w", "n", "l", "o", "a", "d">>
SegDownloadX == SegDownload \o <<"x">>
SegUsers == <<"u", "s", "e", "r", "s">>
SegFile == <<"r", "1">>
DotDot == <<".", ".">>

\* the paths of the url parameters tried, as lists of segments
TargetPaths ==
    { <<>>,
      <<SegV2, SegPhone, SegRecording, SegDownload>>,
      <<SegV2, SegPhone, SegRecording, SegDownload, SegFile>>,
      <<SegV2, SegPhone, SegRecording, SegDownloadX>>,
      <<SegV2, SegPhone, SegRecording>>,
      <<SegV2, SegUsers>>,
      <<SegV2, SegPhone, SegRecording, SegDownload, DotDot, DotDot, SegUsers>>,
      <<SegUsers, DotDot, SegV2, SegPhone, SegRecording, SegDownload>> }

\* What url.searchParams.get("url") can give: null for a missing
\* parameter, the empty string, or a text; a text is written here by its
\* parts scheme://userinfo@host/segments, scheme "" for a text without a
\* scheme and userinfo <<>> for none.
Targets ==
    {[kind |-> "null"], [kind |-> "empty"]}
        \cup [kind : {"text"}, scheme : {"", "https", "http"},
              userinfo : {<<>>, ZoomHost},
              host : {ZoomHost, ZoomHostUpper, OtherHost, ZoomPrefixedHost},
              segs : TargetPaths]

\* the path of a URL with its dot segments removed
RECURSIVE RemoveDots(_, _)
RemoveDots(segs, out) ==
    IF segs = <<>> THEN out
    ELSE IF Head(segs) = DotDot
    THEN RemoveDots(Tail(segs),
                    IF out = <<>> THEN out ELSE SubSeq(out, 1, Len(out) - 1))
    ELSE RemoveDots(Tail(segs), Append(out, Head(segs)))

\* the text of a path: "/" before every segment, "/" alone for none
RECURSIVE PathText(_)
PathText(segs) ==
    IF segs = <<>> THEN <<>> ELSE <<"/">> \o Head(segs) \o PathText(Tail(segs))

pathnameOf(segs) ==
    LET clean == RemoveDots(segs, <<>>)
    IN IF clean = <<>> THEN <<"/">> ELSE PathText(clean)

\* new URL(target) throws
Threw == [threw |-> TRUE]

\* new URL(target), no base given: a text without a scheme throws; the
\* host name is lower-cased, the path normalised
NewURL(t) ==
    IF t.scheme = "" THEN Threw
    ELSE [protocol |-> t.scheme, username |-> t.userinfo,
          hostname |-> toLowerCase(t.host), pathname |-> pathnameOf(t.segs)]

\* String.prototype.startsWith
startsWith(s, p) == Len(s) >= Len(p) /\ SubSeq(s, 1, Len(p)) = p

\* "/v2/phone/recording/download"
DownloadPrefix == PathText(<<SegV2, SegPhone, SegRecording, SegDownload>>)

\* a test that looks at the path only
BlockedPathOnly(u) == ~startsWith(u.pathname, DownloadPrefix)

\* zoomUrl.hostname !== "zoom.us" ||
\* !zoomUrl.pathname.startsWith("/v2/phone/recording/download")
Blocked(u) ==
    u.hostname # ZoomHost \/ ~startsWith(u.pathname, DownloadPrefix)

\* json(status, obj)
json(status, message) == [status |-> status, body |-> [error |-> message]]

\* handleDownloadRecording up to its first await: the three tests with
\* their 400 returns, or the call of getZoomAccessToken
handleDownloadRecording ==
    /\ dlPc = "request"
    /\ IF target.kind \in {"null", "empty"}
       THEN /\ dlPc' = "ret_missing"
            /\ dlResponse' = json(400, "Missing 'url' query parameter")
            /\ UNCHANGED <<zoomUrl, tokenCalls>>
       ELSE IF NewURL(target) = Threw
       THEN /\ dlPc' = "ret_invalid"
            /\ dlResponse' = json(400, "Invalid URL")
            /\ UNCHANGED <<zoomUrl, tokenCalls>>
       ELSE /\ zoomUrl' = NewURL(target)
            /\ IF Blocked(NewURL(target))
               THEN /\ dlPc' = "ret_blocked"
                    /\ dlResponse' = json(400, "Blocked URL")
                    /\ UNCHANGED tokenCalls
               ELSE /\ dlPc' = "token"
                    /\ tokenCalls' = tokenCalls + 1
                    /\ UNCHANGED dlResponse
    /\ UNCHANGED <<target, upstreamFetches>>
    /\ UNCHANGED meetingsVars
    /\ UNCHANGED notHandler

\* await getZoomAccessToken(env) of the proxy resolves and the target is
\* fetched with the bearer token, or it throws out of the handler
proxyToken(ok) ==
    /\ dlPc = "token"
    /\ IF ok
       THEN /\ dlPc' = "fetch"
            /\ upstreamFetches' =
                  Append(upstreamFetches, [url |-> zoomUrl, authorization |-> "Bearer"])
       ELSE /\ dlPc' = "threw"
            /\ UNCHANGED upstreamFetches
    /\ UNCHANGED <<target, zoomUrl, tokenCalls, dlResponse>>
    /\ UNCHANGED meetingsVars
    /\ UNCHANGED notHandler

\* statuses of the response to the proxied request
ProxiedStatuses == {200, 404}

\* the proxied fetch resolves: its body and status are passed on
proxyFetched(status) ==
    /\ dlPc = "fetch"
    /\ dlPc' = "ret_proxied"
    /\ dlResponse' = [status |-> status, body |-> [proxied |-> zoomUrl]]
    /\ UNCHANGED <<target, zoomUrl, tokenCalls, upstreamFetches>>
    /\ UNCHANGED meetingsVars
    /\ UNCHANGED notHandler

\* a GET of /api/phone/recordings/download arrives
InitProxy ==
    /\ source = "phone"
    /\ demoMode = FALSE
    /\ ClientIdle
    /\ MeetingsHandlerIdle
    /\ LegacyIdle
    /\ dlPc = "request"
    /\ target \in Targets
    /\ zoomUrl = None
    /\ tokenCalls = 0
    /\ upstreamFetches = <<>>
    /\ dlResponse = None
    /\ PoolsIdle
    /\ AppIdle

NextProxy ==
    \/ handleDownloadRecording
    \/ \E ok \in BOOLEAN : proxyToken(ok)
    \/ \E status \in ProxiedStatuses : proxyFetched(status)

SpecProxy == InitProxy /\ [][NextProxy]_vars

\* ---------------------------------------------------------------------
\* Client: runLimited and the analytics fan-out of the effect
\* ---------------------------------------------------------------------
\* runLimited(4, tasks) of the analytics summary effect
summaryLimit == 4

\* const concurrency = 6 of the analytics effect
analyticsConcurrency == 6

\* most tasks handed to one runLimited call
MaxTasks == 6

\* most meeting ids one run of the analytics effect finds missing
MaxMissing == 7

\* new Array(Math.min(limit, queue.length)): the pullers of runLimited
NumPullers(limit, n) == Min(limit, n)

\* runLimited(limit, tasks) up to its first await: queue = [...tasks], then
\* every puller runs to its first await: it shifts a task and starts it.
\* With no puller Promise.all([]) resolves and runLimited returns.
runLimitedCall(limit, n) ==
    /\ rlPc = "idle"
    /\ LET k == NumPullers(limit, n)
       IN /\ rlWorkers' = [w \in 1..k |-> w]
          /\ queue' = [j \in 1..(n - k) |-> k + j]
          /\ rlStarted' = [t \in 1..n |-> IF t <= k THEN 1 ELSE 0]
          /\ rlPc' = IF k = 0 THEN "done" ELSE "running"
    /\ UNCHANGED <<anPc, missing, anIdx, anWorkers, cancelled, analyticsByMeetingId>>
    /\ UNCHANGED identityVars
    /\ UNCHANGED notPools

\* the task at the end of the queue
pop(qu) == qu[Len(qu)]

\* const t = queue.shift(): the task at the front of the queue
shift(qu) == Head(qu)

\* the task of puller w settles: with stats it stores them under its
\* meeting id, without it returns; then the loop of the puller: the next
\* task is shifted off the queue and started, or the puller returns; once
\* every puller has returned, Promise.all resolves and runLimited returns
runLimitedPuller(w, stats) ==
    /\ rlPc = "running"
    /\ ~Returned(rlWorkers[w])
    /\ analyticsByMeetingId' =
          IF stats THEN analyticsByMeetingId \cup {rlWorkers[w]}
          ELSE analyticsByMeetingId
    /\ IF Len(queue) > 0
       THEN /\ rlWorkers' = [rlWorkers EXCEPT ![w] = shift(queue)]
            /\ rlStarted' = [rlStarted EXCEPT ![shift(queue)] = @ + 1]
            /\ queue' = Tail(queue)
            /\ UNCHANGED rlPc
       ELSE /\ rlWorkers' = [rlWorkers EXCEPT ![w] = 0]
            /\ rlPc' = IF \A v \in DOMAIN rlWorkers : v = w \/ Returned(rlWorkers[v])
                       THEN "done" ELSE "running"
            /\ UNCHANGED <<queue, rlStarted>>
    /\ UNCHANGED <<anPc, missing, anIdx, anWorkers, cancelled>>
    /\ UNCHANGED identityVars
    /\ UNCHANGED notPools

runLimited ==
    \/ \E n \in 0..MaxTasks : runLimitedCall(summaryLimit, n)
    \/ \E w \in DOMAIN rlWorkers : \E stats \in BOOLEAN : runLimitedPuller(w, stats)

\* one run of the analytics effect up to its first await: n meeting ids of
\* the page are missing; none: return; else every worker runs to its first
\* await: i = idx++ and the fetch for missing[i]
analyticsEffect(n) ==
    /\ anPc = "idle"
    /\ LET k == Min(analyticsConcurrency, n)
       IN /\ missing' = n
          /\ anWorkers' = [w \in 1..k |-> w]
          /\ anIdx' = k
          /\ anPc' = IF n = 0 THEN "done" ELSE "running"
    /\ UNCHANGED <<cancelled, analyticsByMeetingId>>
    /\ UNCHANGED <<rlPc, queue, rlWorkers, rlStarted>>
    /\ UNCHANGED identityVars
    /\ UNCHANGED notPools

\* what fetchMeetingAnalytics can give: stats, null, or a rejection
AnalyticsOutcomes == {"stats", "null", "throw"}

\* a worker that stores its result whatever the flag
DiscardsThrowOnly(o) == o = "throw"

\* the worker leaves without storing: the await threw, or
\* if (cancelled) return;
Discards(o) == o = "throw" \/ cancelled

\* analytics worker w resumes from await fetchMeetingAnalytics: a rejection
\* ends the worker; if (cancelled) return; else the stats (or the zero
\* stats for null) are stored and the loop takes the next index or ends
analyticsWorker(w, o) ==
    /\ anPc = "running"
    /\ ~Returned(anWorkers[w])
    /\ LET i == anWorkers[w]
           stops == Discards(o) \/ ~(anIdx < missing)
       IN /\ analyticsByMeetingId' =
                IF Discards(o) THEN analyticsByMeetingId
                ELSE analyticsByMeetingId \cup {i}
          /\ anWorkers' = [anWorkers EXCEPT ![w] = IF stops THEN 0 ELSE anIdx + 1]
          /\ anIdx' = IF stops THEN anIdx ELSE anIdx + 1
          /\ anPc' = IF stops /\ \A v \in DOMAIN anWorkers : v = w \/ Returned(anWorkers[v])
                     THEN "done" ELSE "running"
    /\ UNCHANGED <<missing, cancelled>>
    /\ UNCHANGED <<rlPc, queue, rlWorkers, rlStarted>>
    /\ UNCHANGED identityVars
    /\ UNCHANGED notPools

\* the cleanup of the effect: cancelled = true
analyticsCleanup ==
    /\ anPc \in {"running", "done"}
    /\ ~cancelled
    /\ cancelled' = TRUE
    /\ UNCHANGED <<anPc, missing, anIdx, anWorkers, analyticsByMeetingId>>
    /\ UNCHANGED <<rlPc, queue, rlWorkers, rlStarted>>
    /\ UNCHANGED identityVars
    /\ UNCHANGED notPools

analyticsFanOut ==
    \/ \E n \in 0..MaxMissing : analyticsEffect(n)
    \/ \E w \in DOMAIN anWorkers : \E o \in AnalyticsOutcomes : analyticsWorker(w, o)
    \/ analyticsCleanup

\* the three worker pools: the per-user fan-out of the meetings handler,
\* runLimited, and the analytics fan-out
InitPools ==
    \/ InitMeet
    \/ /\ source = "meetings"
       /\ demoMode = FALSE
       /\ ClientIdle
       /\ HandlerIdle
       /\ LegacyIdle
       /\ \E pool \in {"runLimited", "analytics"} :
             /\ rlPc = IF pool = "runLimited" THEN "idle" ELSE "off"
             /\ anPc = IF pool = "analytics" THEN "idle" ELSE "off"
       /\ queue = <<>>
       /\ rlWorkers = <<>>
       /\ rlStarted = <<>>
       /\ missing = 0
       /\ anIdx = 0
       /\ anWorkers = <<>>
       /\ cancelled = FALSE
       /\ analyticsByMeetingId = {}
       /\ identityPc = "off"
       /\ meetingIdentity = None
       /\ AppIdle

NextPools ==
    \/ NextMeet
    \/ runLimited
    \/ analyticsFanOut

SpecPools == InitPools /\ [][NextPools]_vars

\* ---------------------------------------------------------------------
\* The fetch loops on their own: the two client loops and the user
\* enumeration of the handler, each resumed whenever its response arrives
\* ---------------------------------------------------------------------
InitLoops == InitPage \/ InitMeet

NextLoops ==
    \/ fetchRecordingsStart
    \/ fetchAllPhoneRecordings
    \/ fetchAllContactCenterRecordings
    \/ getZoomAccessToken
    \/ UsersEnumeration

SpecLoops == InitLoops /\ [][NextLoops]_vars /\ WF_vars(NextLoops)

\* ---------------------------------------------------------------------
\* Properties
\* ---------------------------------------------------------------------
\* the loop of the current source is still running
Paging == fetchPc \in {"phone", "cc"}

\* fetchAll*Recordings has returned its result to fetchRecordings
Returned_Result == fetchPc = "done" /\ error = NULL

\* C1: a pagination loop issues no more page requests than its cap, 20 for
\* phone and 50 for contact center, and it is still running after a page
\* only if that page carried a non-empty next_page_token.
C1_PageCap ==
    /\ source = "phone" => requests <= 20
    /\ source = "cc" => requests <= 50
    /\ Paging /\ loops > 0 => Truthy(lastPage)
    /\ Paging => requests = loops + 1
    /\ fetchPc = "done" => requests \in {loops, loops + 1}

C1_Witness ==
    /\ source = "phone"
    /\ Returned_Result
    /\ requests = 20
    /\ Truthy(lastPage)

\* C2: the result of a paginated fetch carries a flag terminatedEarly,
\* true when the loop stopped at the cap with a non-empty token on the
\* last page and false when it stopped on an empty token.
TerminatedEarly(res) ==
    "terminatedEarly" \in DOMAIN res /\ res.terminatedEarly = TRUE

C2_TerminatedEarlyFlag ==
    Returned_Result => (TerminatedEarly(result) <=> Truthy(lastPage))

\* the fetch loop of the request has ended
LoopEnded ==
    IF source = "meetings" THEN hPc \notin {"token", "enum"}
    ELSE fetchPc = "done"

\* C3: every fetch loop (phone, contact center, user enumeration) ends,
\* whatever tokens the upstream returns.
C3_LoopsTerminate == <>LoopEnded

\* every worker of the fan-out has returned
AllReturned ==
    /\ hPc \in {"fanout", "ret_debug_user_recordings", "ret_meetings"}
    /\ \A w \in DOMAIN workers : Returned(workers[w])

\* C4: once all workers have finished, the per-user summaries and the
\* error entries together number exactly the enumerated users.
C4_ResultsEqualUnits ==
    AllReturned =>
        BagCardinality(perUserSummary) + BagCardinality(errors) = Len(users)

\* number of entries of the collected array b that belong to user u
EntriesFor(b, u) ==
    BagCardinality(BagFilter(b, {e \in DOMAIN b : e.userId = users[u].id}))

\* C5: a failed per-user fetch leaves one error entry and does not stop
\* the fan-out: the worker that handled it takes the next user when one is
\* left, and when the workers have finished every user was requested once
\* and every failed user has exactly one error entry.
C5_State ==
    AllReturned =>
        \A u \in 1..Len(users) :
            /\ fetched[u] = 1
            /\ outcome[u] # Pending
            /\ Failed(outcome[u]) => EntriesFor(errors, u) = 1

C5_Step ==
    \A w \in DOMAIN workers :
        (/\ hPc = "fanout"
         /\ ~Returned(workers[w])
         /\ outcome[workers[w]] = Pending
         /\ Failed(outcome'[workers[w]]))
        => /\ BagCardinality(errors') = BagCardinality(errors) + 1
           /\ EntriesFor(errors', workers[w]) = 1
           /\ idx < Len(users) =>
                 /\ workers'[w] = idx + 1
                 /\ fetched'[idx + 1] = 1

InFlight(ws) == Cardinality({w \in DOMAIN ws : ~Returned(ws[w])})

\* C6: each pool starts min(limit, units) pullers and never has more than
\* limit tasks in flight: 5 for the meetings fan-out, 4 for runLimited, 6
\* for the analytics fan-out; with no unit no puller starts and the pool
\* is finished at once.
C6_PoolLimits ==
    /\ hPc = "fanout" =>
          /\ Len(workers) = Min(5, Len(users))
          /\ InFlight(workers) <= 5
    /\ hPc = "ret_no_users" => workers = <<>> /\ fetched = <<>>
    /\ rlPc \in {"running", "done"} =>
          /\ Len(rlWorkers) = Min(4, Len(rlStarted))
          /\ InFlight(rlWorkers) <= 4
          /\ Len(rlStarted) = 0 => rlPc = "done"
    /\ anPc \in {"running", "done"} =>
          /\ Len(anWorkers) = Min(6, missing)
          /\ InFlight(anWorkers) <= 6
          /\ missing = 0 => anPc = "done"

C6_Witness ==
    /\ hPc = "fanout"
    /\ Len(users) > 5
    /\ InFlight(workers) = 5

\* the handler has returned after a successful user enumeration
EnumerationSucceeded ==
    hPc \in {"ret_debug_users", "ret_no_users", "ret_debug_user_recordings",
             "ret_meetings"}

\* the collected meetings that satisfy every non-empty filter
PassAllFilters ==
    BagFilter(meetings, {m \in DOMAIN meetings :
        /\ ownerFilter = <<>> \/ ownerMatches(m, ownerFilter)
        /\ topicFilter = <<>> \/ topicMatches(m, topicFilter)
        /\ q = <<>> \/ qMatches(m, q)})

FailedUsers == {u \in DOMAIN outcome : Failed(outcome[u])}

\* status 200, total_records the post-filter count, _errors one entry per
\* failed user and absent without a failed user
ResponseAsClaimed ==
    /\ response.status = 200
    /\ "total_records" \in DOMAIN response.body
    /\ response.body.total_records = BagCardinality(PassAllFilters)
    /\ IF FailedUsers = {}
       THEN "_errors" \notin DOMAIN response.body
       ELSE /\ "_errors" \in DOMAIN response.body
            /\ BagCardinality(response.body._errors) = Cardinality(FailedUsers)
            /\ \A u \in DOMAIN outcome :
                  EntriesFor(response.body._errors, u)
                      = IF Failed(outcome[u]) THEN 1 ELSE 0

\* C7 as stated: whenever user enumeration succeeds the response is 200
\* with total_records the post-filter count and _errors as above.
C7_AlwaysTotalRecords == EnumerationSucceeded => ResponseAsClaimed

\* C7 amended: the same whenever user enumeration succeeds and no debug
\* view (debug=users, debug=user-recordings) is requested.
C7_TotalRecordsWithoutDebug ==
    EnumerationSucceeded /\ debug \notin {"users", "user-recordings"}
        => ResponseAsClaimed

C7_Witness ==
    /\ hPc = "ret_meetings"
    /\ FailedUsers # {}
    /\ \E u \in DOMAIN outcome : outcome[u] = "ok"
    /\ response.body.total_records > 0
    /\ response.body.total_records < BagCardinality(meetings)

\* ---------------------------------------------------------------------
\* Client: App selection and the bulk delete of handleConfirmDelete
\* ---------------------------------------------------------------------
\* most records of one fetched dataset
MaxDataset == 2

\* most bulk delete batches of one session
MaxBatches == 2

\* identifiers the provider gives the n-th record of a dataset
RecId == <<"r1", "r2", "r3", "r4">>
Uuid == <<"u1", "u2", "u3", "u4">>

\* the shapes of a Recording: a phone record with or without id, a meeting
\* with or without uuid (id: m.uuid || String(m.id), meetingId: m.uuid),
\* a contact-center record
Shapes == {"phone", "phone_noid", "meeting", "meeting_nouuid", "cc"}

\* the name the n-th record carries (caller name, or topic of a meeting)
Names == << <<"A">>, <<"b">>, <<"a", "b">>, <<"x">> >>

\* the auto-delete flag upstream reports for the n-th meeting: the
\* booleans true and false, or no flag
AutoDeleteOf(n) ==
    CASE n % 3 = 1 -> "true" [] n % 3 = 2 -> "false" [] OTHER -> UNDEFINED

Rec(shape, n) ==
    CASE shape = "phone" ->
            [ref |-> n, source |-> "phone", id |-> RecId[n], meetingId |-> UNDEFINED,
             caller_name |-> Names[n], topic |-> NoText, autoDelete |-> UNDEFINED]
      [] shape = "phone_noid" ->
            [ref |-> n, source |-> "phone", id |-> UNDEFINED, meetingId |-> UNDEFINED,
             caller_name |-> Names[n], topic |-> NoText, autoDelete |-> UNDEFINED]
      [] shape = "meeting" ->
            [ref |-> n, source |-> "meetings", id |-> Uuid[n], meetingId |-> Uuid[n],
             caller_name |-> Names[n], topic |-> Names[n], autoDelete |-> AutoDeleteOf(n)]
      [] shape = "meeting_nouuid" ->
            [ref |-> n, source |-> "meetings", id |-> RecId[n], meetingId |-> UNDEFINED,
             caller_name |-> Names[n], topic |-> Names[n], autoDelete |-> AutoDeleteOf(n)]
      [] OTHER ->
            [ref |-> n, source |-> "cc", id |-> RecId[n], meetingId |-> UNDEFINED,
             caller_name |-> Names[n], topic |-> NoText, autoDelete |-> UNDEFINED]

ShapesOf(src) ==
    CASE src = "phone" -> {"phone", "phone_noid"}
      [] src = "meetings" -> {"meeting", "meeting_nouuid"}
      [] OTHER -> {"cc"}

\* the datasets a search of one source can return
DataSets(src) ==
    UNION { { [n \in 1..len |-> Rec(f[n], n)] : f \in [1..len -> ShapesOf(src)] }
            : len \in 0..MaxDataset }

\* the datasets of demo mode: records of every shape
generateDemoRecordings ==
    UNION { { [n \in 1..len |-> Rec(f[n], n)] : f \in [1..len -> Shapes] }
            : len \in 0..MaxDataset }

\* data?.recordings ?? []
recordings == IF data = None THEN <<>> ELSE data.recordings

\* String.prototype.trim
RECURSIVE trimStart(_)
trimStart(s) == IF s # <<>> /\ Head(s) = " " THEN trimStart(Tail(s)) ELSE s

RECURSIVE trimEnd(_)
trimEnd(s) ==
    IF s # <<>> /\ s[Len(s)] = " " THEN trimEnd(SubSeq(s, 1, Len(s) - 1)) ELSE s

trim(s) == trimEnd(trimStart(s))

\* query.trim().toLowerCase()
normalizedQueryOf(qry) == toLowerCase(trim(qry))

normalizedQuery == normalizedQueryOf(query)

\* the haystack of matchesQuery: the text fields of the record joined by
\* blanks and lower-cased (of the eight fields the records of the model
\* carry caller_name and topic)
haystack(rec) ==
    toLowerCase(OrEmpty(rec.caller_name) \o <<" ">> \o OrEmpty(rec.topic))

\* matchesQuery under the normalized query nq
matchesQuery(rec, nq) == nq = <<>> \/ includes(haystack(rec), nq)

\* the auto-delete filter adf of filteredRecordings
matchesAutoDelete(rec, adf) ==
    IF source # "meetings" THEN TRUE
    ELSE IF adf = "all" THEN TRUE
    ELSE IF adf = "auto" THEN rec.autoDelete = "true"
    ELSE IF adf = "manual" THEN rec.autoDelete = "false"
    ELSE TRUE

\* recordings.filter(matchesQuery).filter(auto-delete filter) under the
\* search text qry and the auto-delete filter adf
filteredUnder(qry, adf) ==
    SelectSeq(recordings,
              LAMBDA rec : /\ matchesQuery(rec, normalizedQueryOf(qry))
                           /\ matchesAutoDelete(rec, adf))

\* the records shown
filteredRecordings == filteredUnder(query, autoDeleteFilter)

makeRecordKey(rec, i) ==
    IF rec.source = "meetings"
    THEN <<"m", Coalesce(rec.meetingId, ""), Coalesce(rec.id, ToString(i))>>
    ELSE <<"p", Coalesce(rec.id, ToString(i))>>

\* the keys of the rows shown
RowKeys ==
    LET f == filteredRecordings
    IN {makeRecordKey(f[k], k - 1) : k \in DOMAIN f}

\* pageSize || 100
DefaultPageSize == 100
effectivePageSize == IF pageSize = 0 THEN DefaultPageSize ELSE pageSize

totalFiltered == Len(filteredRecordings)

\* Math.ceil(totalFiltered / effectivePageSize), 1 for an empty list
totalPages ==
    LET n == totalFiltered
    IN IF n # 0 THEN (n + effectivePageSize - 1) \div effectivePageSize ELSE 1

\* the page index as it is, without the clamp
safePageIndexUnclamped == pageIndex

\* pageIndex >= totalPages ? Math.max(0, totalPages - 1) : pageIndex
safePageIndex ==
    LET pages == totalPages
    IN IF pageIndex >= pages
       THEN (IF pages - 1 > 0 THEN pages - 1 ELSE 0)
       ELSE pageIndex

pageStart == safePageIndex * effectivePageSize
pageEnd == pageStart + effectivePageSize

\* every row of the filtered list
AllRows == DOMAIN filteredRecordings

\* pageRecords = filteredRecordings.slice(pageStart, pageEnd), by position
PageRows ==
    LET first == pageStart
        last == pageEnd
    IN {k \in 1..totalFiltered : first < k /\ k <= last}

\* pageRecords.map((rec, idx) => makeRecordKey(rec, pageStart + idx))
PageKeys ==
    LET f == filteredRecordings
    IN {makeRecordKey(f[k], k - 1) : k \in PageRows}

\* the table is rendered: not the "Loading recordings" nor the "No
\* recordings match" placeholder
TableShown ==
    /\ ~(loading /\ Len(recordings) = 0)
    /\ Len(filteredRecordings) # 0

\* useSelection: clearSelection empties the set
clearSelection == {}

\* an applySelection that replaces the selection by the given keys
applySelectionReplacing(sel, keys, checked) ==
    IF checked THEN keys ELSE {}

\* useSelection: applySelection(keys, checked) on the selection sel
applySelection(sel, keys, checked) ==
    IF checked THEN sel \cup keys ELSE sel \ keys

\* seq.filter((rec, idx) => selected.has(makeRecordKey(rec, idx)))
FilterIdx(seq, selected) ==
    LET F[k \in 0..Len(seq)] ==
            IF k = 0 THEN <<>>
            ELSE IF makeRecordKey(seq[k], k - 1) \in selected
                 THEN Append(F[k - 1], seq[k]) ELSE F[k - 1]
    IN F[Len(seq)]

selectedCount ==
    Len(FilterIdx(filteredRecordings, selectedKeys))

\* toggleRowSelection -> toggleSelection(key)
toggleSelection(key) ==
    /\ uiPc = "mounted"
    /\ TableShown
    /\ selectedKeys' = IF key \in selectedKeys THEN selectedKeys \ {key}
                       ELSE selectedKeys \cup {key}
    /\ UNCHANGED <<uiPc, showDeleteModal, pendingDelete, deleting, deleteProgress,
                   deleteMessage, batches, sent, inFlight, timers, upstream>>
    /\ UNCHANGED <<clientVars, handlerVars, poolVars, legacyVars, viewVars>>

\* the select-all checkbox of the table: selectAllOnPage(checked)
selectAllOnPage(checked) ==
    /\ uiPc = "mounted"
    /\ TableShown
    /\ selectedKeys' = applySelection(selectedKeys, PageKeys, checked)
    /\ UNCHANGED <<uiPc, showDeleteModal, pendingDelete, deleting, deleteProgress,
                   deleteMessage, batches, sent, inFlight, timers, upstream>>
    /\ UNCHANGED <<clientVars, handlerVars, poolVars, legacyVars, viewVars>>

\* the Clear button: setSelectedKeys(new Set()), disabled while deleting
clearButton ==
    /\ uiPc = "mounted"
    /\ ~deleting
    /\ selectedKeys' = {}
    /\ UNCHANGED <<uiPc, showDeleteModal, pendingDelete, deleting, deleteProgress,
                   deleteMessage, batches, sent, inFlight, timers, upstream>>
    /\ UNCHANGED <<clientVars, handlerVars, poolVars, legacyVars, viewVars>>

\* the selected records of the whole list, hidden ones included
SelectedOfAll == FilterIdx(recordings, selectedKeys)

\* filteredRecordings.filter((rec, idx) =>
\*     selectedKeys.has(makeRecordKey(rec, idx)))
SelectedOfFiltered == FilterIdx(filteredRecordings, selectedKeys)

\* a Review & delete button that stays enabled while deleting
ReviewEnabledWhileDeleting == selectedCount # 0

\* the Review & delete button: disabled={selectedCount === 0 || deleting}
ReviewEnabled == ~(selectedCount = 0 \/ deleting)

\* a click on Review & delete
openDeleteModal ==
    /\ uiPc = "mounted"
    /\ ReviewEnabled
    /\ LET toDelete == SelectedOfFiltered
       IN IF Len(toDelete) = 0
          THEN UNCHANGED <<pendingDelete, showDeleteModal>>
          ELSE /\ pendingDelete' = toDelete
               /\ showDeleteModal' = TRUE
    /\ UNCHANGED <<uiPc, selectedKeys, deleting, deleteProgress, deleteMessage,
                   batches, sent, inFlight, timers, upstream>>
    /\ UNCHANGED <<clientVars, handlerVars, poolVars, legacyVars, viewVars>>

\* a closeDeleteModal without its guard
CloseNeverBlocked == FALSE

\* if (deleting) return;
CloseBlocked == deleting

\* closeDeleteModal is called (the Cancel button of the modal)
closeDeleteModal ==
    /\ uiPc = "mounted"
    /\ showDeleteModal
    /\ IF CloseBlocked
       THEN UNCHANGED <<showDeleteModal, pendingDelete>>
       ELSE /\ showDeleteModal' = FALSE
            /\ pendingDelete' = <<>>
    /\ UNCHANGED <<uiPc, selectedKeys, deleting, deleteProgress, deleteMessage,
                   batches, sent, inFlight, timers, upstream>>
    /\ UNCHANGED <<clientVars, handlerVars, poolVars, legacyVars, viewVars>>

\* failed += 1 without the increment
CountFailureForgotten(f) == f

\* failed += 1
CountFailure(f) == f + 1

\* the identifier test that looks at rec.id for every source
MissingIdentifierIdOnly(rec) == ~Truthy(rec.id)

\* if (!rec.id) throw ... for phone, if (!rec.meetingId) throw ... otherwise
MissingIdentifier(rec) ==
    IF rec.source = "phone" THEN ~Truthy(rec.id) ELSE ~Truthy(rec.meetingId)

\* every item sent to the meeting endpoint
DeleteRequestMeetingOnly(rec) ==
    [endpoint |-> "/api/meeting/recordings/delete",
     body |-> [meetingId |-> rec.meetingId, action |-> "trash"]]

\* the request of one item: endpoint and JSON body
DeleteRequest(rec) ==
    IF rec.source = "phone"
    THEN [endpoint |-> "/api/phone/recordings/delete",
          body |-> [recordingId |-> rec.id]]
    ELSE [endpoint |-> "/api/meeting/recordings/delete",
          body |-> [meetingId |-> rec.meetingId, action |-> "trash"]]

\* The for loop of handleConfirmDelete from item b.i (0-based) up to its
\* next await: in demo mode the await of the 40 ms timeout; otherwise an
\* item without its identifier throws into the catch (failed += 1) and the
\* loop goes on, and an item with it awaits its fetch. pc tells where the
\* loop stopped.
RECURSIVE LoopFrom(_)
LoopFrom(b) ==
    IF b.i >= Len(b.toDelete) THEN [b EXCEPT !.pc = "after_loop"]
    ELSE LET rec == b.toDelete[b.i + 1]
             b1 == [b EXCEPT !.attempts[b.i + 1] = @ + 1]
         IN IF demoMode THEN [b1 EXCEPT !.pc = "await_timeout"]
            ELSE IF MissingIdentifier(rec)
            THEN LoopFrom([b1 EXCEPT !.failed = CountFailure(@),
                                     !.outcomes[b.i + 1] = "failed",
                                     !.i = @ + 1])
            ELSE [b1 EXCEPT !.pc = "await_fetch"]

\* a filter that removes nothing
RemainingAll(recs, toDelete) == recs

\* prev.recordings.filter((r) => !toDelete.includes(r))
Remaining(recs, toDelete) ==
    SelectSeq(recs, LAMBDA r : \A k \in DOMAIN toDelete : toDelete[k].ref # r.ref)

\* a finally that leaves the modal open
BatchFinallyKeepsModal ==
    /\ deleting' = FALSE
    /\ showDeleteModal' = showDeleteModal
    /\ pendingDelete' = <<>>
    /\ timers' = timers + 1

\* the finally of handleConfirmDelete
BatchFinally ==
    /\ deleting' = FALSE
    /\ showDeleteModal' = FALSE
    /\ pendingDelete' = <<>>
    /\ timers' = timers + 1

\* the selection left as it is after the loop
SelectionKeptAfterBatch == selectedKeys

\* clearSelection() after the loop of handleConfirmDelete, in both branches
SelectionAfterBatch == clearSelection

\* a progress that counts the successful items only
ProgressOfSuccesses(b) == [total |-> Len(b.toDelete), done |-> b.success]

\* setDeleteProgress({ total: toDelete.length, done: 0 }) before the loop
\* and setDeleteProgress({ total: toDelete.length, done: i + 1 }) in the
\* finally of every item: the value last set when the loop of b stands at
\* item b.i
ProgressAfter(b) == [total |-> Len(b.toDelete), done |-> b.i]

\* Batch k resumes (or starts) as b0 within the batches bs, with `base`
\* requests in flight: the loop runs to its next await; per finished item
\* setDeleteProgress({total, done: i + 1}); after the loop the demo branch
\* (setData, message, clearSelection, and the finally) or the other branch
\* (message, clearSelection, and fetchRecordings up to its request). del
\* and msg are deleting and deleteMessage as the caller has set them.
ContinueBatch(bs, k, b0, base, del, msg) ==
    LET b1 == LoopFrom(b0)
        n == Len(b1.toDelete)
    IN /\ deleteProgress' = ProgressAfter(b1)
       /\ IF b1.pc = "await_fetch"
          THEN /\ sent' = Append(sent, [batch |-> k, item |-> b1.i]
                                        @@ DeleteRequest(b1.toDelete[b1.i + 1]))
               /\ inFlight' = base + 1
          ELSE /\ sent' = sent
               /\ inFlight' = base
       /\ IF b1.pc # "after_loop"
          THEN /\ batches' = [bs EXCEPT ![k] = b1]
               /\ deleting' = del
               /\ deleteMessage' = msg
               /\ UNCHANGED <<data, loading, error, selectedKeys,
                              showDeleteModal, pendingDelete, timers>>
          ELSE IF demoMode
          THEN /\ batches' = [bs EXCEPT ![k] = [b1 EXCEPT !.pc = "finished"]]
               /\ data' = IF data = None THEN data
                          ELSE [data EXCEPT
                                  !.recordings = Remaining(data.recordings, b1.toDelete),
                                  !.total_records =
                                      Len(Remaining(data.recordings, b1.toDelete))]
               /\ deleteMessage' = [text |-> "Demo delete", success |-> b1.success,
                                    failed |-> 0]
               /\ selectedKeys' = SelectionAfterBatch
               /\ BatchFinally
               /\ UNCHANGED <<loading, error>>
          ELSE /\ batches' = [bs EXCEPT ![k] = [b1 EXCEPT !.pc = "await_refetch"]]
               /\ deleting' = del
               /\ deleteMessage' = [text |-> "Delete complete", success |-> b1.success,
                                    failed |-> b1.failed]
               /\ selectedKeys' = SelectionAfterBatch
               /\ loading' = TRUE
               /\ error' = NULL
               /\ UNCHANGED <<data, showDeleteModal, pendingDelete, timers>>

\* a Confirm delete button that stays enabled while deleting
ConfirmEnabledWhileDeleting == showDeleteModal

\* the Confirm delete button is rendered with the modal, disabled={deleting}
ConfirmEnabled == showDeleteModal /\ ~deleting

\* a click on Confirm delete: the call of handleConfirmDelete up to its
\* first await: setDeleting(true), setDeleteProgress({total, done: 0}),
\* setDeleteMessage(null), the loop
handleConfirmDelete ==
    /\ uiPc = "mounted"
    /\ ConfirmEnabled
    /\ Len(batches) < MaxBatches
    /\ LET toDelete == pendingDelete
           k == Len(batches) + 1
           b0 == [toDelete |-> toDelete, i |-> 0, success |-> 0, failed |-> 0,
                  pc |-> "start",
                  attempts |-> [j \in 1..Len(toDelete) |-> 0],
                  outcomes |-> [j \in 1..Len(toDelete) |-> "none"]]
       IN IF Len(toDelete) = 0
          THEN /\ showDeleteModal' = FALSE
               /\ UNCHANGED <<data, loading, error, selectedKeys, pendingDelete,
                              deleting, deleteProgress, deleteMessage, batches,
                              sent, inFlight, timers>>
          ELSE ContinueBatch(Append(batches, b0), k, b0, inFlight, TRUE, None)
    /\ UNCHANGED <<uiPc, upstream>>
    /\ UNCHANGED <<source, demoMode, fetchPc, allRecs, nextToken, loops, lastPage,
                   requests, result>>
    /\ UNCHANGED <<handlerVars, poolVars, legacyVars, viewVars>>

\* how the awaited delete of one item can settle
DeleteOutcomes == {"ok", "non2xx", "reject"}

\* the await of item i of batch k settles: the timeout of demo mode, or the
\* fetch (2xx: success += 1; non-2xx, after res.text(), or a rejection:
\* the catch, failed += 1); finally setDeleteProgress; then the loop goes on
itemSettled(k, o) ==
    /\ uiPc = "mounted"
    /\ k \in DOMAIN batches
    /\ batches[k].pc \in {"await_timeout", "await_fetch"}
    /\ batches[k].pc = "await_timeout" => o = "ok"
    /\ LET b == batches[k]
           rec == b.toDelete[b.i + 1]
           b0 == IF o = "ok"
                 THEN [b EXCEPT !.success = @ + 1, !.outcomes[b.i + 1] = "success",
                                !.i = @ + 1]
                 ELSE [b EXCEPT !.failed = CountFailure(@), !.outcomes[b.i + 1] = "failed",
                                !.i = @ + 1]
       IN /\ upstream' = IF b.pc = "await_fetch" /\ o = "ok"
                         THEN SelectSeq(upstream, LAMBDA r : r.ref # rec.ref)
                         ELSE upstream
          /\ ContinueBatch(batches, k, b0,
                           IF b.pc = "await_fetch" THEN inFlight - 1 ELSE inFlight,
                           deleting, deleteMessage)
    /\ UNCHANGED uiPc
    /\ UNCHANGED <<source, demoMode, fetchPc, allRecs, nextToken, loops, lastPage,
                   requests, result>>
    /\ UNCHANGED <<handlerVars, poolVars, legacyVars, viewVars>>

\* await fetchRecordings() of batch k settles: setData with what the
\* provider holds now, or setError; setLoading(false); then the finally
refetchSettled(k, ok) ==
    /\ uiPc = "mounted"
    /\ k \in DOMAIN batches
    /\ batches[k].pc = "await_refetch"
    /\ batches' = [batches EXCEPT ![k].pc = "finished"]
    /\ IF ok
       THEN /\ data' = SetDataOf(LoopResult(upstream))
            /\ UNCHANGED error
       ELSE /\ error' = "non2xx"
            /\ UNCHANGED data
    /\ loading' = FALSE
    /\ BatchFinally
    /\ UNCHANGED <<uiPc, selectedKeys, deleteProgress, deleteMessage, sent,
                   inFlight, upstream>>
    /\ UNCHANGED <<source, demoMode, fetchPc, allRecs, nextToken, loops, lastPage,
                   requests, result>>
    /\ UNCHANGED <<handlerVars, poolVars, legacyVars, viewVars>>

\* setTimeout(() => setDeleteProgress(null), 2000) fires
progressTimeout ==
    /\ uiPc = "mounted"
    /\ timers > 0
    /\ timers' = timers - 1
    /\ deleteProgress' = None
    /\ UNCHANGED <<uiPc, selectedKeys, showDeleteModal, pendingDelete, deleting,
                   deleteMessage, batches, sent, inFlight, upstream>>
    /\ UNCHANGED <<clientVars, handlerVars, poolVars, legacyVars, viewVars>>

\* the App is mounted and shows the dataset of a finished search (the
\* demo data do not depend on the source: demo mode keeps the initial one)
InitApp ==
    /\ demoMode \in BOOLEAN
    /\ source \in (IF demoMode THEN {"phone"} ELSE {"phone", "meetings", "cc"})
    /\ \E ds \in (IF demoMode THEN generateDemoRecordings ELSE DataSets(source)) :
          /\ data = SetDataOf(LoopResult(ds))
          /\ upstream = ds
    /\ fetchPc = "idle"
    /\ loading = FALSE
    /\ error = NULL
    /\ allRecs = <<>>
    /\ nextToken = NULL
    /\ loops = 0
    /\ lastPage = NULL
    /\ requests = 0
    /\ result = None
    /\ HandlerIdle
    /\ LegacyIdle
    /\ PoolsIdle
    /\ uiPc = "mounted"
    /\ selectedKeys = {}
    /\ showDeleteModal = FALSE
    /\ pendingDelete = <<>>
    /\ deleting = FALSE
    /\ deleteProgress = None
    /\ deleteMessage = None
    /\ batches = <<>>
    /\ sent = <<>>
    /\ inFlight = 0
    /\ timers = 0
    /\ ViewInit

\* the whole dataset fits on one page
InitDelete == InitApp /\ pageSize = MaxDataset

NextDelete ==
    \/ \E key \in PageKeys : toggleSelection(key)
    \/ \E checked \in BOOLEAN : selectAllOnPage(checked)
    \/ clearButton
    \/ openDeleteModal
    \/ closeDeleteModal
    \/ handleConfirmDelete
    \/ \E k \in DOMAIN batches : \E o \in DeleteOutcomes : itemSettled(k, o)
    \/ \E k \in DOMAIN batches : \E ok \in BOOLEAN : refetchSettled(k, ok)
    \/ progressTimeout

SpecDelete == InitDelete /\ [][NextDelete]_vars

\* the awaited timeout or fetch of an item settles, and so does the
\* awaited fetchRecordings
SpecDeleteLive ==
    /\ InitDelete
    /\ [][NextDelete]_vars
    /\ WF_vars(\E k \in DOMAIN batches : \E o \in DeleteOutcomes : itemSettled(k, o))
    /\ WF_vars(\E k \in DOMAIN batches : \E ok \in BOOLEAN : refetchSettled(k, ok))

\* ---------------------------------------------------------------------
\* Client: the table view of App: search text, auto-delete filter,
\* paging, selection and the submission of a search
\* ---------------------------------------------------------------------
\* rows per page of the table
ModelPageSize == 1

\* most searches awaiting their data at once
MaxSearches == 2

\* the texts typed into the search box
Queries == {<<>>, <<"a">>, <<"B", " ">>}

AutoDeleteFilters == {"all", "auto", "manual"}

modalVars == <<showDeleteModal, pendingDelete, deleting, deleteProgress,
               deleteMessage, batches, sent, inFlight, timers>>

\* onChange of the search box: setPageIndex(0); setQuery(e.target.value)
setQuery(qry) ==
    /\ uiPc = "mounted"
    /\ qry # query
    /\ pageIndex' = 0
    /\ query' = qry
    /\ UNCHANGED <<pageSize, autoDeleteFilter, searches>>
    /\ UNCHANGED <<uiPc, selectedKeys, upstream, modalVars>>
    /\ UNCHANGED <<clientVars, handlerVars, poolVars, legacyVars>>

\* the auto-delete pills, disabled unless source is meetings
setAutoDeleteFilter(adf) ==
    /\ uiPc = "mounted"
    /\ source = "meetings"
    /\ autoDeleteFilter' = adf
    /\ UNCHANGED <<pageIndex, pageSize, query, searches>>
    /\ UNCHANGED <<uiPc, selectedKeys, upstream, modalVars>>
    /\ UNCHANGED <<clientVars, handlerVars, poolVars, legacyVars>>

\* Prev page, disabled while safePageIndex <= 0 || deleting
handlePrevPage ==
    /\ uiPc = "mounted"
    /\ ~(safePageIndex <= 0 \/ deleting)
    /\ pageIndex' = IF pageIndex - 1 > 0 THEN pageIndex - 1 ELSE 0
    /\ UNCHANGED <<pageSize, query, autoDeleteFilter, searches>>
    /\ UNCHANGED <<uiPc, selectedKeys, upstream, modalVars>>
    /\ UNCHANGED <<clientVars, handlerVars, poolVars, legacyVars>>

\* a Next page that also empties the selection
handleNextPageClearing ==
    /\ uiPc = "mounted"
    /\ ~(safePageIndex + 1 >= totalPages \/ deleting)
    /\ pageIndex' = IF pageIndex + 1 < totalPages THEN pageIndex + 1 ELSE pageIndex
    /\ selectedKeys' = {}
    /\ UNCHANGED <<pageSize, query, autoDeleteFilter, searches>>
    /\ UNCHANGED <<uiPc, upstream, modalVars>>
    /\ UNCHANGED <<clientVars, handlerVars, poolVars, legacyVars>>

\* Next page, disabled while safePageIndex + 1 >= totalPages || deleting
handleNextPage ==
    /\ uiPc = "mounted"
    /\ ~(safePageIndex + 1 >= totalPages \/ deleting)
    /\ pageIndex' = IF pageIndex + 1 < totalPages THEN pageIndex + 1 ELSE pageIndex
    /\ UNCHANGED <<pageSize, query, autoDeleteFilter, searches>>
    /\ UNCHANGED <<uiPc, selectedKeys, upstream, modalVars>>
    /\ UNCHANGED <<clientVars, handlerVars, poolVars, legacyVars>>

\* the selection left as it is by a search
SelectionKeptOnSearch == selectedKeys

\* clearSelection() of onSearch
SelectionOnSearch == clearSelection

\* the source buttons Phone and Meetings: setSource, setPageIndex(0),
\* clearSelection(), and for Phone setAutoDeleteFilter("all")
setSource(src) ==
    /\ uiPc = "mounted"
    /\ source' = src
    /\ pageIndex' = 0
    /\ selectedKeys' = clearSelection
    /\ autoDeleteFilter' = IF src = "phone" THEN "all" ELSE autoDeleteFilter
    /\ UNCHANGED <<pageSize, query, searches>>
    /\ UNCHANGED <<uiPc, upstream, modalVars>>
    /\ UNCHANGED <<demoMode, fetchPc, loading, error, data, allRecs, nextToken,
                   loops, lastPage, requests, result>>
    /\ UNCHANGED <<handlerVars, poolVars, legacyVars>>

\* the calls still awaited
AwaitedOnly(ss) == SelectSeq(ss, LAMBDA c : c.pc = "await")

\* onSearch (the Search button, or Enter in the search box):
\* setPageIndex(0); clearSelection(); handleSearch() -> fetchRecordings()
\* up to its await: setLoading(true), setError(null); in demo mode the
\* generated records are set at once and the finally sets loading false;
\* otherwise the call awaits the records of the source it was created for
onSearch ==
    /\ uiPc = "mounted"
    /\ searching < MaxSearches
    /\ pageIndex' = 0
    /\ selectedKeys' = SelectionOnSearch
    /\ error' = NULL
    /\ IF demoMode
       THEN /\ \E ds \in generateDemoRecordings :
                  /\ data' = SetDataOf(LoopResult(ds))
                  /\ upstream' = ds
            /\ loading' = FALSE
            /\ searches' = searches
       ELSE /\ loading' = TRUE
            /\ searches' = Append(AwaitedOnly(searches),
                                  [source |-> source, pc |-> "await"])
            /\ UNCHANGED <<data, upstream>>
    /\ UNCHANGED <<pageSize, query, autoDeleteFilter>>
    /\ UNCHANGED <<uiPc, modalVars>>
    /\ UNCHANGED <<source, demoMode, fetchPc, allRecs, nextToken, loops, lastPage,
                   requests, result>>
    /\ UNCHANGED <<handlerVars, poolVars, legacyVars>>

\* the awaited fetchAll...Recordings of the k-th call settles: setData
\* with the records ds of its source, or setError; finally
\* setLoading(false)
searchSettled(k, ds, ok) ==
    /\ uiPc = "mounted"
    /\ k \in DOMAIN searches
    /\ searches[k].pc = "await"
    /\ LET ss == [searches EXCEPT ![k].pc = IF ok THEN "ok" ELSE "failed"]
       IN searches' = IF AwaitedOnly(ss) = <<>> THEN <<>> ELSE ss
    /\ IF ok
       THEN /\ data' = SetDataOf(LoopResult(ds))
            /\ upstream' = ds
            /\ UNCHANGED error
       ELSE /\ error' = "non2xx"
            /\ UNCHANGED <<data, upstream>>
    /\ loading' = FALSE
    /\ UNCHANGED <<pageIndex, pageSize, query, autoDeleteFilter>>
    /\ UNCHANGED <<uiPc, selectedKeys, modalVars>>
    /\ UNCHANGED <<source, demoMode, fetchPc, allRecs, nextToken, loops, lastPage,
                   requests, result>>
    /\ UNCHANGED <<handlerVars, poolVars, legacyVars>>

\* the table shows pages of ModelPageSize rows
InitSelect == InitApp /\ pageSize = ModelPageSize

NextSelect ==
    \/ \E key \in PageKeys : toggleSelection(key)
    \/ \E checked \in BOOLEAN : selectAllOnPage(checked)
    \/ clearButton
    \/ \E qry \in Queries : setQuery(qry)
    \/ \E adf \in AutoDeleteFilters : setAutoDeleteFilter(adf)
    \/ handlePrevPage
    \/ handleNextPage
    \/ onSearch
    \/ \E src \in {"phone", "meetings"} : setSource(src)
    \/ \E k \in DOMAIN searches : \E ds \in DataSets(searches[k].source) :
          \E ok \in BOOLEAN : searchSettled(k, ds, ok)

SpecSelect == InitSelect /\ [][NextSelect]_vars

\* ---------------------------------------------------------------------
\* Client: the table view over lists of several pages: search text,
\* auto-delete filter, page size, paging; outside demo mode searches, in
\* demo mode the bulk delete of selected pages
\* ---------------------------------------------------------------------
\* most records of a list of the table view
MaxViewDataset == 3

\* most bulk deletes of one behaviour of the table view
MaxViewBatches == 1

\* the page sizes offered by the page-size pills ([25, 100, 1000] in the
\* code), scaled to the lists of the model
PageSizes == {ModelPageSize, ModelPageSize + 1}

\* the lists a search of one source can return: every record carries its
\* identifiers
ViewDataSets(src) ==
    { [n \in 1..len |-> Rec(IF src = "meetings" THEN "meeting" ELSE "phone", n)]
        : len \in 0..MaxViewDataset }

\* the lists of demo mode
ViewDemoRecordings == ViewDataSets("phone") \cup ViewDataSets("meetings")

\* the page-size pills: setPageSize(size); setPageIndex(0)
setPageSize(size) ==
    /\ uiPc = "mounted"
    /\ size # pageSize
    /\ pageSize' = size
    /\ pageIndex' = 0
    /\ UNCHANGED <<query, autoDeleteFilter, searches>>
    /\ UNCHANGED <<uiPc, selectedKeys, upstream, modalVars>>
    /\ UNCHANGED <<clientVars, handlerVars, poolVars, legacyVars>>

\* the App shows the list of a finished search, one row per page
InitView ==
    /\ demoMode \in BOOLEAN
    /\ source \in (IF demoMode THEN {"phone"} ELSE {"phone", "meetings"})
    /\ \E ds \in (IF demoMode THEN ViewDemoRecordings ELSE ViewDataSets(source)) :
          /\ data = SetDataOf(LoopResult(ds))
          /\ upstream = ds
    /\ fetchPc = "idle"
    /\ loading = FALSE
    /\ error = NULL
    /\ allRecs = <<>>
    /\ nextToken = NULL
    /\ loops = 0
    /\ lastPage = NULL
    /\ requests = 0
    /\ result = None
    /\ HandlerIdle
    /\ LegacyIdle
    /\ PoolsIdle
    /\ uiPc = "mounted"
    /\ selectedKeys = {}
    /\ showDeleteModal = FALSE
    /\ pendingDelete = <<>>
    /\ deleting = FALSE
    /\ deleteProgress = None
    /\ deleteMessage = None
    /\ batches = <<>>
    /\ sent = <<>>
    /\ inFlight = 0
    /\ timers = 0
    /\ pageIndex = 0
    /\ pageSize = ModelPageSize
    /\ query = <<>>
    /\ autoDeleteFilter = "all"
    /\ searches = <<>>

NextView ==
    \/ selectAllOnPage(TRUE)
    \/ \E qry \in Queries : setQuery(qry)
    \/ \E adf \in AutoDeleteFilters : setAutoDeleteFilter(adf)
    \/ \E size \in PageSizes : setPageSize(size)
    \/ handlePrevPage
    \/ handleNextPage
    \/ openDeleteModal
    \/ demoMode /\ Len(batches) < MaxViewBatches /\ handleConfirmDelete
    \/ \E k \in DOMAIN batches : \E o \in DeleteOutcomes : itemSettled(k, o)
    \/ ~demoMode /\ onSearch
    \/ \E k \in DOMAIN searches : \E ds \in ViewDataSets(searches[k].source) :
          \E ok \in BOOLEAN : searchSettled(k, ds, ok)

SpecView == InitView /\ [][NextView]_vars

\* ---------------------------------------------------------------------
\* Client: the review of a selection: selection, search text, auto-delete
\* filter and paging over a fixed list, and the delete modal
\* ---------------------------------------------------------------------
NextReview ==
    \/ \E key \in PageKeys : toggleSelection(key)
    \/ \E checked \in BOOLEAN : selectAllOnPage(checked)
    \/ clearButton
    \/ \E qry \in Queries : setQuery(qry)
    \/ \E adf \in AutoDeleteFilters : setAutoDeleteFilter(adf)
    \/ handlePrevPage
    \/ handleNextPage
    \/ openDeleteModal
    \/ closeDeleteModal

SpecReview == InitSelect /\ [][NextReview]_vars

\* ---------------------------------------------------------------------
\* Client: the App from its mount: the first fetch, the background
\* effects (meeting identity, analytics summary, analytics fan-out), the
\* source buttons and searches
\* ---------------------------------------------------------------------
\* the meeting ids of the records of the page shown
PageMeetingIds ==
    LET f == filteredRecordings
    IN {f[k].meetingId : k \in PageRows} \ {UNDEFINED}

\* what /api/meeting/identity answers
Identity == [userId |-> "account", source |-> "account_recordings"]

\* loadMeetingIdentity resumes from its fetch: if (!res.ok) return;
\* setMeetingIdentity(json); a rejection is ignored
identitySettled(ok) ==
    /\ uiPc = "mounted"
    /\ identityPc = "await"
    /\ identityPc' = "done"
    /\ meetingIdentity' = IF ok THEN Identity ELSE meetingIdentity
    /\ UNCHANGED <<rlPc, queue, rlWorkers, rlStarted, anPc, missing, anIdx,
                   anWorkers, cancelled, analyticsByMeetingId>>
    /\ UNCHANGED notPools

\* the analytics summary effect, while no meeting id holds stats: for
\* source meetings, one task per meeting id of the page, runLimited(4, tasks)
summaryEffect ==
    /\ uiPc = "mounted"
    /\ source = "meetings"
    /\ PageMeetingIds # {}
    /\ analyticsByMeetingId = {}
    /\ runLimitedCall(summaryLimit, Cardinality(PageMeetingIds))

\* the analytics effect with the cancelled flag, while no meeting id
\* holds stats: if (demoMode) return; if (source !== "meetings") return;
\* then the fan-out over the meeting ids of the page
meetingAnalyticsEffect ==
    /\ uiPc = "mounted"
    /\ ~demoMode
    /\ source = "meetings"
    /\ PageMeetingIds # {}
    /\ analyticsByMeetingId = {}
    /\ analyticsEffect(Cardinality(PageMeetingIds))

\* The App after its mount and the mount effects: fetchRecordings() ran to
\* its await (in demo mode to its end, the generated records are shown),
\* loadMeetingIdentity() ran to its fetch; source is "phone".
InitMount ==
    /\ demoMode \in BOOLEAN
    /\ source = "phone"
    /\ IF demoMode
       THEN \E ds \in generateDemoRecordings :
               /\ data = SetDataOf(LoopResult(ds))
               /\ upstream = ds
       ELSE /\ data = None
            /\ upstream = <<>>
    /\ loading = ~demoMode
    /\ searches = IF demoMode THEN <<>> ELSE <<[source |-> "phone", pc |-> "await"]>>
    /\ fetchPc = "idle"
    /\ error = NULL
    /\ allRecs = <<>>
    /\ nextToken = NULL
    /\ loops = 0
    /\ lastPage = NULL
    /\ requests = 0
    /\ result = None
    /\ HandlerIdle
    /\ LegacyIdle
    /\ rlPc = "idle"
    /\ queue = <<>>
    /\ rlWorkers = <<>>
    /\ rlStarted = <<>>
    /\ anPc = "idle"
    /\ missing = 0
    /\ anIdx = 0
    /\ anWorkers = <<>>
    /\ cancelled = FALSE
    /\ analyticsByMeetingId = {}
    /\ identityPc = "await"
    /\ meetingIdentity = None
    /\ uiPc = "mounted"
    /\ selectedKeys = {}
    /\ showDeleteModal = FALSE
    /\ pendingDelete = <<>>
    /\ deleting = FALSE
    /\ deleteProgress = None
    /\ deleteMessage = None
    /\ batches = <<>>
    /\ sent = <<>>
    /\ inFlight = 0
    /\ timers = 0
    /\ pageIndex = 0
    /\ pageSize = MaxDataset
    /\ query = <<>>
    /\ autoDeleteFilter = "all"

NextMount ==
    \/ \E ok \in BOOLEAN : identitySettled(ok)
    \/ summaryEffect
    \/ meetingAnalyticsEffect
    \/ \E w \in DOMAIN rlWorkers : \E stats \in BOOLEAN : runLimitedPuller(w, stats)
    \/ \E w \in DOMAIN anWorkers : \E o \in AnalyticsOutcomes : analyticsWorker(w, o)
    \/ analyticsCleanup
    \/ \E src \in {"phone", "meetings"} : setSource(src)
    \/ onSearch
    \/ \E k \in DOMAIN searches : \E ds \in DataSets(searches[k].source) :
          \E ok \in BOOLEAN : searchSettled(k, ds, ok)

SpecMount == InitMount /\ [][NextMount]_vars

\* ---------------------------------------------------------------------
\* Properties of the bulk delete
\* ---------------------------------------------------------------------
\* the batch has left its loop
LoopDone(b) == b.pc \in {"await_refetch", "finished"}

\* C8: the pending list is processed one item at a time: at most one
\* delete request is in flight, and when the request of an item is issued
\* every earlier item of its batch has completed.
C8_Sequential ==
    /\ inFlight <= 1
    /\ \A k \in DOMAIN batches :
          batches[k].pc = "await_fetch" =>
              /\ inFlight = 1
              /\ sent[Len(sent)].batch = k
              /\ sent[Len(sent)].item = batches[k].i
    /\ \A n \in DOMAIN sent :
          /\ \A j \in 1..sent[n].item : batches[sent[n].batch].outcomes[j] # "none"
          /\ \A m \in DOMAIN sent :
                m < n /\ sent[m].batch = sent[n].batch => sent[m].item < sent[n].item

C8_Witness ==
    /\ inFlight = 1
    /\ \E m, n \in DOMAIN sent :
          /\ sent[m].batch = sent[n].batch
          /\ sent[m].item = 0
          /\ sent[n].item = 1
    /\ \E k \in DOMAIN batches : batches[k].pc = "await_fetch" /\ batches[k].i = 1

\* C9: a failed delete does not end the batch: no item is attempted twice,
\* and when the loop is done every item was attempted once and
\* success + failed is the size of the pending list.
C9_NoAbort ==
    \A k \in DOMAIN batches :
        LET b == batches[k]
        IN /\ \A j \in DOMAIN b.attempts : b.attempts[j] <= 1
           /\ LoopDone(b) =>
                 /\ \A j \in DOMAIN b.attempts : b.attempts[j] = 1
                 /\ b.success + b.failed = Len(b.toDelete)

C9_Witness ==
    \E k \in DOMAIN batches :
        /\ LoopDone(batches[k])
        /\ Len(batches[k].toDelete) = 2
        /\ batches[k].outcomes[1] = "failed"
        /\ batches[k].outcomes[2] = "success"

\* the record lacks the identifier its source needs: id for phone,
\* meetingId for meetings
LacksIdentifier(rec) ==
    \/ rec.source = "phone" /\ rec.id \in {UNDEFINED, NULL, ""}
    \/ rec.source = "meetings" /\ rec.meetingId \in {UNDEFINED, NULL, ""}

\* in batch b every processed item without its identifier is a failure,
\* the counters count each item once, and no request was sent for it
LackingItemsFail(k) ==
    LET b == batches[k]
    IN /\ b.failed = Cardinality({j \in DOMAIN b.outcomes : b.outcomes[j] = "failed"})
       /\ b.success = Cardinality({j \in DOMAIN b.outcomes : b.outcomes[j] = "success"})
       /\ \A j \in DOMAIN b.toDelete :
             LacksIdentifier(b.toDelete[j]) =>
                 /\ b.outcomes[j] # "success"
                 /\ b.i >= j => b.outcomes[j] = "failed"
                 /\ \A n \in DOMAIN sent :
                       ~(sent[n].batch = k /\ sent[n].item = j - 1)

\* C10 as stated: in any bulk delete a record without its identifier is
\* one failure, never a success, and no request is sent for it.
C10_MissingIdFailsAlways == \A k \in DOMAIN batches : LackingItemsFail(k)

\* C10 amended: the same in any bulk delete outside demo mode.
C10_MissingIdFailsOutsideDemo ==
    ~demoMode => \A k \in DOMAIN batches : LackingItemsFail(k)

C10_Witness ==
    /\ ~demoMode
    /\ \E k \in DOMAIN batches :
          /\ LoopDone(batches[k])
          /\ batches[k].success = 1
          /\ \E j \in DOMAIN batches[k].toDelete :
                /\ LacksIdentifier(batches[k].toDelete[j])
                /\ batches[k].outcomes[j] = "failed"

\* the items of batch b attempted so far: those that succeeded or failed
Attempted(b) == Cardinality({j \in DOMAIN b.outcomes : b.outcomes[j] # "none"})

\* the batch started last
LastBatch == batches[Len(batches)]

\* a shown progress describes the batch started last
C11_State ==
    (batches # <<>> /\ deleteProgress # None) =>
        deleteProgress = [total |-> Len(LastBatch.toDelete),
                          done |-> Attempted(LastBatch)]

\* a step of the loop of handleConfirmDelete: the batch starts, or one of
\* its items completes
LoopStep ==
    /\ batches' # batches
    /\ Len(batches') > Len(batches) \/ ~LoopDone(LastBatch)

\* what a step of the loop does to the progress
C11_Step ==
    LoopStep =>
        LET b == batches'[Len(batches')]
        IN /\ deleteProgress' = [total |-> Len(b.toDelete), done |-> Attempted(b)]
           /\ Len(batches') > Len(batches) => deleteProgress'.done = b.failed
           /\ (Len(batches') = Len(batches) /\ deleteProgress # None) =>
                 deleteProgress'.done >= deleteProgress.done
           /\ LoopDone(b) => deleteProgress'.done = deleteProgress'.total

\* C11: DeleteProgress.done is the number of items attempted so far: the
\* batch starts with total = size of the pending list and done = 0 (plus
\* the items that failed at once for want of an identifier), every
\* completed item, succeeded or failed, sets done to the number attempted,
\* done never decreases within a batch, and done = total when the loop of
\* the batch has ended.
C11_ProgressCountsAttempts == []C11_State /\ [][C11_Step]_vars

C11_Witness ==
    /\ batches # <<>>
    /\ deleteProgress # None
    /\ deleteProgress.done = 2
    /\ deleteProgress.total = 2
    /\ LastBatch.failed = 1
    /\ LastBatch.success = 1

\* ref of the records of a list, in order
RefsOf(seq) == [k \in DOMAIN seq |-> seq[k].ref]

\* every delete request issued is the request of an item of its batch
RequestsOfSnapshot ==
    \A n \in DOMAIN sent :
        LET b == batches[sent[n].batch]
            r == DeleteRequest(b.toDelete[sent[n].item + 1])
        IN sent[n].endpoint = r.endpoint /\ sent[n].body = r.body

C12_State ==
    /\ deleting => batches # <<>> /\ pendingDelete = LastBatch.toDelete
    /\ RequestsOfSnapshot

\* no step changes the list of a started batch, and while the batch runs
\* the pending list stays as captured
C12_Step ==
    /\ \A k \in DOMAIN batches : batches'[k].toDelete = batches[k].toDelete
    /\ (deleting /\ deleting') => pendingDelete' = pendingDelete

\* C12: the pending list captured when the modal opened is what the batch
\* deletes: while the batch runs, toggling or bulk-selecting rows and
\* calling closeDeleteModal change neither the pending list nor the list
\* of the batch, and every request sent is for an item of that list.
C12_SnapshotImmutable == []C12_State /\ [][C12_Step]_vars

\* a batch is running with a request in flight while the live selection
\* holds a record that is not in its list and none that is
C12_Witness ==
    /\ deleting
    /\ batches # <<>>
    /\ LastBatch.pc = "await_fetch"
    /\ selectedKeys # {}
    /\ \A k \in DOMAIN filteredRecordings :
          filteredRecordings[k].ref \in {LastBatch.toDelete[j].ref : j \in DOMAIN LastBatch.toDelete}
              => makeRecordKey(filteredRecordings[k], k - 1) \notin selectedKeys

\* the state of the bulk delete orchestrator
Phase ==
    IF deleting
    THEN (IF LastBatch.pc = "await_refetch" THEN "Reconciling" ELSE "Running")
    ELSE IF showDeleteModal THEN "Confirming" ELSE "Idle"

\* the transitions of the orchestrator. Between two awaits the code runs
\* to completion, so a step can pass through a state without resting in
\* it: Confirming to Reconciling when every item fails at once for want of
\* its identifier, Running to Idle in demo mode, where the records are
\* removed locally without an await.
PhaseSteps ==
    { <<"Idle", "Confirming">>, <<"Confirming", "Idle">>,
      <<"Confirming", "Running">>, <<"Confirming", "Reconciling">>,
      <<"Running", "Reconciling">>, <<"Running", "Idle">>,
      <<"Reconciling", "Idle">> }

C13_Step ==
    /\ Phase' # Phase => <<Phase, Phase'>> \in PhaseSteps
    /\ (Phase = "Confirming" /\ Phase' = "Reconciling") =>
          LastBatch'.failed = Len(LastBatch'.toDelete)
    /\ (Phase = "Running" /\ Phase' = "Idle") =>
          demoMode /\ LastBatch'.pc = "finished"
    /\ Len(batches') > Len(batches) =>
          /\ Phase = "Confirming"
          /\ pendingDelete # <<>>
          /\ LastBatch'.toDelete = pendingDelete
    /\ (Phase # "Reconciling" /\ Phase' = "Reconciling") =>
          Attempted(LastBatch') = Len(LastBatch'.toDelete)
    /\ (Phase \in {"Running", "Reconciling"} /\ Phase' = "Idle") =>
          /\ Attempted(LastBatch') = Len(LastBatch'.toDelete)
          /\ LastBatch'.pc = "finished"

\* the orchestrator rests: not deleting, modal closed, pending list empty
Rests == ~deleting /\ ~showDeleteModal /\ pendingDelete = <<>>

\* C13: the orchestrator only moves Idle -> Confirming -> Running ->
\* Reconciling -> Idle (or Confirming -> Idle on cancel): a batch starts
\* only from Confirming with the non-empty captured list, reconciliation
\* starts only when every item was attempted, and every started batch
\* eventually leaves the orchestrator idle with deleting = false, the
\* modal closed and the pending list empty.
C13_StateMachine == [][C13_Step]_vars /\ (deleting ~> Rests)

C13_Witness ==
    /\ ~demoMode
    /\ batches # <<>>
    /\ LastBatch.pc = "finished"
    /\ LastBatch.success >= 1
    /\ LastBatch.failed >= 1
    /\ Rests

\* the step in which the batch started last completes (its finally runs)
BatchCompletes ==
    /\ batches # <<>>
    /\ Len(batches') = Len(batches)
    /\ LastBatch.pc # "finished"
    /\ LastBatch'.pc = "finished"

\* the step in which the loop of the batch started last ends
LoopEnds ==
    /\ batches' # batches
    /\ LoopDone(LastBatch')
    /\ Len(batches') > Len(batches) \/ ~LoopDone(LastBatch)

\* C14 as stated: when a bulk delete batch completes, in demo mode or
\* not and whatever its successes and failures, the selection set is empty.
C14_EmptyWhenBatchCompletes == [][BatchCompletes => selectedKeys' = {}]_vars

\* C14 amended: every batch clears the selection when its last item has
\* completed, before the re-aggregation is requested; in demo mode the
\* selection is empty when the batch completes.
C14_ClearedWhenLoopEnds ==
    [][/\ LoopEnds => selectedKeys' = {}
       /\ (BatchCompletes /\ demoMode) => selectedKeys' = {}]_vars

\* the loop has ended with a success and a failure, the re-aggregation is
\* awaited and the selection is empty
C14_Witness ==
    /\ batches # <<>>
    /\ LastBatch.pc = "await_refetch"
    /\ LastBatch.success >= 1
    /\ LastBatch.failed >= 1
    /\ selectedKeys = {}

\* the set of refs of the records of a list
RefSet(seq) == {seq[k].ref : k \in DOMAIN seq}

\* in demo mode nothing is fetched again; otherwise the re-aggregation is
\* awaited only when every item of the batch was attempted and no delete
\* request is in flight
C15_State ==
    \A k \in DOMAIN batches :
        /\ demoMode => batches[k].pc # "await_refetch" /\ ~loading
        /\ batches[k].pc = "await_refetch" =>
              /\ Attempted(batches[k]) = Len(batches[k].toDelete)
              /\ inFlight = 0
              /\ loading

C15_Step ==
    /\ (BatchCompletes /\ demoMode) =>
          /\ RefSet(data'.recordings) =
                 RefSet(data.recordings) \ RefSet(LastBatch.toDelete)
          /\ Len(data'.recordings) = Cardinality(RefSet(data'.recordings))
          /\ data'.total_records = Len(data'.recordings)
    /\ (LoopEnds /\ ~demoMode) =>
          /\ LastBatch'.pc = "await_refetch"
          /\ data' = data
    /\ (BatchCompletes /\ ~demoMode) => LastBatch.pc = "await_refetch"

\* C15: after the loop of a batch, demo mode removes exactly the records
\* of the pending list from the local list, sets total_records to the
\* remaining length and fetches nothing; otherwise fetchRecordings is
\* called, and only when the last item has completed.
C15_Reconcile == []C15_State /\ [][C15_Step]_vars

\* a demo batch has removed one of two records
C15_Witness ==
    /\ demoMode
    /\ batches # <<>>
    /\ LastBatch.pc = "finished"
    /\ Len(LastBatch.toDelete) = 1
    /\ Len(data.recordings) = 1
    /\ data.total_records = 1

\* ---------------------------------------------------------------------
\* Properties of the selection and the table view
\* ---------------------------------------------------------------------
\* C16: Prev page and Next page leave the selection set as it is, so a key
\* selected on one page is still selected on every other page.
C16_SelectionSurvivesPaging ==
    [][(handlePrevPage \/ handleNextPage) => selectedKeys' = selectedKeys]_vars

\* the second page is shown, none of its rows is selected, and a key of
\* a row of another page is
C16_Witness ==
    /\ safePageIndex = 1
    /\ PageKeys # {}
    /\ PageKeys \cap selectedKeys = {}
    /\ (RowKeys \ PageKeys) \cap selectedKeys # {}

\* the step in which the dataset of a search arrives
DataArrives ==
    \/ onSearch /\ demoMode
    \/ \E k \in DOMAIN searches : \E ds \in DataSets(searches[k].source) :
          searchSettled(k, ds, TRUE)

\* C17 as stated: a new search clears the selection and resets the page
\* index before the fetch is issued, and no key is selected when the new
\* dataset arrives.
C17_NoKeyWhenDataArrives ==
    [][/\ onSearch => selectedKeys' = {} /\ pageIndex' = 0
       /\ DataArrives => selectedKeys' = {}]_vars

\* C17 amended: a new search clears the selection and resets the page
\* index in the step that issues the fetch; in demo mode the dataset
\* arrives in that same step; the arrival of the dataset leaves the keys
\* selected meanwhile as they are.
C17_ClearedOnSubmission ==
    [][/\ onSearch =>
             /\ selectedKeys' = {}
             /\ pageIndex' = 0
             /\ demoMode \/ (searching' = searching + 1 /\ data' = data)
       /\ (DataArrives /\ ~demoMode) => selectedKeys' = selectedKeys]_vars

\* a search is awaiting its data and a row of the dataset still shown
\* was selected after the submission had emptied the selection
C17_Witness ==
    /\ searching = 1
    /\ loading
    /\ selectedKeys # {}
    /\ pageIndex = 0

\* the keys of the rows whose position lies on the page shown
KeysOfShownPage ==
    LET f == filteredRecordings
        shown == safePageIndex
    IN {makeRecordKey(f[k], k - 1) :
           k \in {n \in DOMAIN f : (n - 1) \div effectivePageSize = shown}}

\* C18: selectAllOnPage(checked) sets the membership of exactly the keys
\* of the rows of the current page and leaves every other key as it was.
C18_OnlyPageKeysChange ==
    [][\A checked \in BOOLEAN :
          selectAllOnPage(checked) =>
              /\ \A key \in KeysOfShownPage : (key \in selectedKeys') <=> checked
              /\ \A key \in (selectedKeys \cup selectedKeys') \ KeysOfShownPage :
                    (key \in selectedKeys') <=> (key \in selectedKeys)]_vars

\* every row of the second page is selected, and so is a row of another
\* page while yet another is not
C18_Witness ==
    /\ safePageIndex = 1
    /\ PageKeys # {}
    /\ PageKeys \subseteq selectedKeys
    /\ (RowKeys \ PageKeys) \cap selectedKeys # {}

\* the record ref is shown under the search text qry and the filter adf
ShownUnder(ref, qry, adf) == ref \in RefSet(filteredUnder(qry, adf))

\* the key of the record ref in the list shown under qry and adf
KeyUnder(ref, qry, adf) ==
    LET f == filteredUnder(qry, adf)
        k == CHOOSE k \in DOMAIN f : f[k].ref = ref
    IN makeRecordKey(f[k], k - 1)

\* C19: within one dataset the key of a record is the same under every
\* search text and auto-delete filter, and a key designates one record
\* only, whatever the filter.
C19_KeyStable ==
    \A r1, r2 \in RefSet(recordings) :
        \A q1, q2 \in Queries : \A a1, a2 \in AutoDeleteFilters :
            (ShownUnder(r1, q1, a1) /\ ShownUnder(r2, q2, a2)) =>
                ((KeyUnder(r1, q1, a1) = KeyUnder(r2, q2, a2)) <=> (r1 = r2))

\* the records the sources can hold: the identifiers of one source are
\* unique within that source, not across sources
RecordUniverse == {Rec(shape, n) : shape \in Shapes, n \in 1..MaxDataset}

\* C20: no two rows of the dataset shown share a key, and the key of a
\* row is not the key of any record of another source.
C20_KeysNeverCollide ==
    /\ \A i, j \in DOMAIN filteredRecordings :
          i # j => makeRecordKey(filteredRecordings[i], i - 1)
                     # makeRecordKey(filteredRecordings[j], j - 1)
    /\ \A i \in DOMAIN filteredRecordings : \A r \in RecordUniverse :
          \A j \in 0..(MaxDataset - 1) :
              r.source # filteredRecordings[i].source =>
                  makeRecordKey(r, j) # makeRecordKey(filteredRecordings[i], i - 1)

\* ---------------------------------------------------------------------
\* Properties of the meetings handler: filters, failures, debug views
\* ---------------------------------------------------------------------
\* the filter texts tried on the collected meetings (lower-cased, as the
\* handler reads them)
FilterTexts == {<<>>, <<"b">>, <<"x">>, <<"b", " ">>}

FilterKinds == {"owner", "topic", "q"}

\* the orders in which the three filters can be applied
FilterOrders ==
    {p \in [1..3 -> FilterKinds] : \A i, j \in 1..3 : p[i] = p[j] => i = j}

\* the filter of one kind applied to ms
FilterStepOf(kind, ms, f) ==
    CASE kind = "owner" -> ownerFilterStep(ms, f)
      [] kind = "topic" -> topicFilterStep(ms, f)
      [] OTHER -> qFilterStep(ms, f)

\* the three filters applied to ms in the order p, F giving the text of
\* each kind
ChainIn(p, ms, F) ==
    FilterStepOf(p[3], FilterStepOf(p[2], FilterStepOf(p[1], ms, F[p[1]]), F[p[2]]),
                 F[p[3]])

\* the meetings of ms that satisfy every non-empty filter
PassAll(ms, of, tf, qf) ==
    BagFilter(ms, {m \in DOMAIN ms :
        /\ of = <<>> \/ ownerMatches(m, of)
        /\ tf = <<>> \/ topicMatches(m, tf)
        /\ qf = <<>> \/ qMatches(m, qf)})

\* C21: the filter chain has AND semantics and does not depend on the
\* order: the meetings of the response are exactly the collected meetings
\* that satisfy every non-empty filter of the request, and for any filter
\* texts the three filters applied in any order give that same set, which
\* is also what the chain of the handler gives.
C21_FilterChain ==
    hPc = "ret_meetings" =>
        /\ response.body.meetings = PassAll(meetings, ownerFilter, topicFilter, q)
        /\ \A of \in FilterTexts, tf \in FilterTexts, qf \in FilterTexts :
              LET F == [owner |-> of, topic |-> tf, q |-> qf]
                  all == PassAll(meetings, of, tf, qf)
              IN /\ ApplyFilters(meetings, of, tf, qf) = all
                 /\ \A p \in FilterOrders : ChainIn(p, meetings, F) = all

\* the three filters are set, each step of the chain removes a meeting,
\* and a meeting passes all three
C21_Witness ==
    /\ hPc = "ret_meetings"
    /\ ownerFilter # <<>> /\ topicFilter # <<>> /\ q # <<>>
    /\ response.body.meetings # EmptyBag
    /\ \E m \in DOMAIN meetings : ~ownerMatches(m, ownerFilter)
    /\ \E m \in DOMAIN meetings :
          ownerMatches(m, ownerFilter) /\ ~topicMatches(m, topicFilter)
    /\ \E m \in DOMAIN meetings :
          ownerMatches(m, ownerFilter) /\ topicMatches(m, topicFilter) /\ ~qMatches(m, q)

\* the lower-cased concatenation of topic, owner email and host id of m
HaystackOf(m) ==
    toLowerCase(OrEmpty(m.topic) \o <<" ">> \o OrEmpty(m.owner_email)
                    \o <<" ">> \o OrEmpty(m.host_id))

\* the handler has answered a search of the scenario account in which the
\* recordings of both users were fetched
ScenarioSearched ==
    /\ account = "scenarioD"
    /\ hPc = "ret_meetings"
    /\ Len(users) = 2
    /\ \A u \in DOMAIN outcome : outcome[u] = "ok"

\* the meeting of the scenario with this topic is in the response
Matched(topic) ==
    \E m \in DOMAIN response.body.meetings : m.topic = topic

\* C22 as stated: q="onboarding" matches the meeting "Onboarding Call" of
\* bob@x.com and also the meeting "Standup" of onboard-bot@x.com.
C22_OnboardingMatchesBoth ==
    ScenarioSearched /\ q = Onboarding
        => Matched(OnboardingCall) /\ Matched(Standup)

\* C22 amended: a meeting passes the q filter exactly when the lower-cased
\* query is a substring of the lower-cased concatenation of topic, owner
\* email and host id; so q="onboarding" matches "Onboarding Call" of
\* bob@x.com and not "Standup" of onboard-bot@x.com, and q="Onboard"
\* matches both, the second through its owner email.
C22_SubstringOfHaystack ==
    /\ hPc = "ret_meetings" /\ ownerFilter = <<>> /\ topicFilter = <<>> /\ q # <<>>
          => /\ \A m \in DOMAIN meetings :
                   m \in DOMAIN response.body.meetings <=> includes(HaystackOf(m), q)
             /\ \A m \in DOMAIN response.body.meetings :
                   response.body.meetings[m] = meetings[m]
    /\ ScenarioSearched /\ q = Onboarding
          => Matched(OnboardingCall) /\ ~Matched(Standup)
    /\ ScenarioSearched /\ q = toLowerCase(Onboard)
          => Matched(OnboardingCall) /\ Matched(Standup)

\* the search of the scenario for "onboarding" has been answered
C22_Witness ==
    /\ ScenarioSearched
    /\ q = Onboarding
    /\ Matched(OnboardingCall)
    /\ BagCardinality(response.body.meetings) = 1

\* number of per-user recordings requests issued so far
RecordingsRequests ==
    Cardinality({u \in DOMAIN fetched : fetched[u] > 0})

\* the users page just received is answered r by the upstream
UsersPageFails(r) == r.kind = "non2xx" /\ UsersPage(r)

\* C23: when a page of the user enumeration returns a non-2xx status the
\* handler returns at once a response with that status and an error body,
\* and neither before nor after it is a per-user recordings request issued.
C23_Step ==
    \A r \in UsersPageResponses :
        UsersPageFails(r) =>
            /\ response'.status = r.status
            /\ response'.body.error = TRUE
            /\ response'.body.status = r.status
            /\ hPc' = "ret_users_failed"
            /\ RecordingsRequests = 0
            /\ fetched' = fetched

C23_State ==
    hPc = "ret_users_failed" =>
        /\ response # None
        /\ response.status \in ErrorStatuses
        /\ RecordingsRequests = 0
        /\ workers = <<>>
        /\ meetings = EmptyBag

C23_UsersFailureAborts == []C23_State /\ [][C23_Step]_vars

\* the second page of the enumeration failed with 503 after a first page
\* that carried users
C23_Witness ==
    /\ hPc = "ret_users_failed"
    /\ Len(users) > 0
    /\ response.status = 503

\* ---------------------------------------------------------------------
\* Properties of the client fetch
\* ---------------------------------------------------------------------
\* fetchRecordings ended with an error and committed nothing
FetchFailed ==
    /\ error' # NULL
    /\ data' = data
    /\ loading' = FALSE
    /\ fetchPc' = "done"

\* C24: a non-2xx response or a body that is not JSON on any page of a
\* phone or contact-center pagination ends the fetch with an error: error
\* is set, the data displayed before stay as they were (no record of the
\* earlier pages is committed) and loading is false again. For phone the
\* page is what the upstream answers through handleGetRecordings, for
\* contact center what fetchJson receives.
C24_Step ==
    /\ \A up \in UpstreamPageResponses :
          (/\ up.kind \in {"non2xx", "nonjson"}
           /\ PageStep("phone", MAX_PHONE_PAGES, handleGetRecordings(up)))
          => FetchFailed
    /\ \A r \in PageResponses :
          (/\ r.kind \in {"non2xx", "nonjson"}
           /\ PageStep("cc", MAX_CC_PAGES, r))
          => FetchFailed

C24_FailureTerminatesFetch == [][C24_Step]_vars

\* the meetings the upstream answers for the users us under the responses
\* out, whatever the order in which the responses arrive
MeetingsGiven(us, out) ==
    LET F[k \in 0..Len(us)] ==
            IF k = 0 THEN EmptyBag
            ELSE IF out[k] \in {"ok", "nullentry"}
                 THEN PushAll(F[k - 1],
                              [j \in 1..Len(MeetingsOf(us[k].id)) |->
                                  MeetingEntry(MeetingsOf(us[k].id)[j], us[k])])
                 ELSE F[k - 1]
    IN F[Len(us)]

\* C25: the answer to a meetings search is a function of the request and
\* of the upstream responses: for the same users and the same response per
\* user, the meetings returned and total_records are the same whatever
\* the order in which the workers resume.
C25_Idempotent ==
    hPc = "ret_meetings" =>
        LET expected == PassAll(MeetingsGiven(users, outcome),
                                ownerFilter, topicFilter, q)
        IN /\ response.body.meetings = expected
           /\ response.body.total_records = BagCardinality(expected)

\* more users than workers, so that the workers took their users in an
\* order that depends on the arrival of the responses; two users or more
\* answered with meetings and one failed
C25_Witness ==
    /\ hPc = "ret_meetings"
    /\ Len(users) > concurrency
    /\ response.body.total_records >= 2
    /\ Cardinality({u \in DOMAIN outcome : outcome[u] = "ok"}) >= 2
    /\ \E u \in DOMAIN outcome : Failed(outcome[u])

\* the records of call k arrive after a call submitted later, for the
\* other source, has delivered its own
StaleArrival(k) ==
    /\ k \in DOMAIN searches
    /\ \E j \in DOMAIN searches :
          /\ j > k
          /\ searches[j].pc = "ok"
          /\ searches[j].source # searches[k].source
    /\ \E ds \in DataSets(searches[k].source) : searchSettled(k, ds, TRUE)

\* C26: when a search is submitted while an earlier one is still awaited,
\* the records shown once both have settled are those of the search
\* submitted last: records of the earlier search that arrive after those
\* of the later one do not replace them.
C26_LatestSearchWins ==
    [][\A k \in 1..MaxSearches : StaleArrival(k) => data' = data]_vars

\* ---------------------------------------------------------------------
\* Properties of the analytics fan-out and of demo mode
\* ---------------------------------------------------------------------
\* a worker of the analytics fan-out resumes from its fetch
AnalyticsResumes ==
    \E w \in DOMAIN anWorkers : \E o \in AnalyticsOutcomes : analyticsWorker(w, o)

\* C27: once the cleanup of the effect has set cancelled, no result of
\* that run is written into analyticsByMeetingId; the fetches already in
\* flight still complete: their workers resume and return without taking
\* another meeting id.
C27_Step ==
    /\ cancelled => analyticsByMeetingId' = analyticsByMeetingId
    /\ cancelled /\ AnalyticsResumes =>
          /\ anIdx' = anIdx
          /\ InFlight(anWorkers') = InFlight(anWorkers) - 1

C27_SoftCancellation == [][C27_Step]_vars

\* the run was cancelled, every fetch has completed, and of more meeting
\* ids than workers one holds stats: the result stored before the
\* cancellation is kept, the later ones were not stored
C27_Witness ==
    /\ cancelled
    /\ anPc = "done"
    /\ missing > analyticsConcurrency
    /\ anIdx = missing
    /\ Cardinality(analyticsByMeetingId) = 1

\* a network request is in flight or was issued: a fetch of recordings,
\* a delete request, the fetch of the meeting identity, a task of runLimited
\* or a worker of the analytics fan-out
NetworkUsed ==
    \/ searching > 0
    \/ sent # <<>>
    \/ inFlight > 0
    \/ \E k \in DOMAIN batches : batches[k].pc \in {"await_fetch", "await_refetch"}
    \/ identityPc = "await"
    \/ rlPc = "running"
    \/ anPc = "running"

\* C28: while demoMode is true no network request is issued: not by a
\* search, not by a bulk delete, not by a background effect (analytics
\* summary, analytics fan-out, meeting identity).
C28_DemoBypassesNetwork == demoMode => ~NetworkUsed

\* the last page of the user enumeration arrives at a request with
\* debug=users
LastUsersPageDebug(r) ==
    /\ debug = "users"
    /\ r.kind = "ok"
    /\ ~Truthy(r.next_page_token)
    /\ UsersPage(r)

\* C29: with debug=users the handler returns, when the user enumeration
\* ends, the list of the enumerated users with status 200, and at no time
\* issues a per-user recordings request or starts a worker.
C29_Step ==
    \A r \in UsersPageResponses :
        LastUsersPageDebug(r) =>
            /\ hPc' = "ret_debug_users"
            /\ response'.status = 200
            /\ response'.body.users = users'
            /\ response'.body.total_users = Len(users')
            /\ fetched' = fetched
            /\ workers' = <<>>

C29_State ==
    debug = "users" =>
        /\ RecordingsRequests = 0
        /\ workers = <<>>
        /\ meetings = EmptyBag
        /\ hPc \in {"token", "enum", "ret_debug_users", "ret_users_failed", "ret_catch"}
        /\ hPc = "ret_debug_users" =>
              /\ response = DebugUsersResponse(users)
              /\ nextPageToken = ""

C29_DebugUsersShortCircuits == []C29_State /\ [][C29_Step]_vars

\* the debug view of an account of several users, enumerated in two pages
C29_Witness ==
    /\ debug = "users"
    /\ hPc = "ret_debug_users"
    /\ Len(response.body.users) = MaxUsers
    /\ RecordingsRequests = 0

\* a page of source src arrives through fetchJson
PageArrives(r) ==
    /\ r.kind = "ok"
    /\ \/ PageStep("phone", MAX_PHONE_PAGES, r)
       \/ PageStep("cc", MAX_CC_PAGES, r)

\* the token the request of the awaited page carries: nextToken, which no
\* step changes between the request and the arrival of its page
RequestToken == nextToken

\* C30: within one source the pages keep their order. The first page is
\* requested without a token and each later page with exactly the token the
\* preceding page returned; a request is issued only in the step that
\* received the preceding page, so at most one is outstanding; and the
\* records collected, and in the end shown, are the records of the pages
\* concatenated in the order the pages were fetched.
C30_Step ==
    \A r \in PageResponses :
        PageArrives(r) =>
            /\ IF loops = 0
               THEN RequestToken = NULL
               ELSE RequestToken = lastPage /\ Truthy(lastPage)
            /\ requests = loops + 1
            /\ requests' \in {requests, requests + 1}
            /\ requests' = requests + 1 =>
                  /\ fetchPc' = fetchPc
                  /\ RequestToken' = r.next_page_token
            /\ Len(allRecs') = Len(allRecs) + r.n
            /\ SubSeq(allRecs', 1, Len(allRecs)) = allRecs
            /\ \A k \in Len(allRecs) + 1..Len(allRecs') :
                  allRecs'[k].cursor = RequestToken
            /\ fetchPc' = "done" => data'.recordings = allRecs'

C30_State ==
    /\ requests \in {loops, loops + 1}
    /\ fetchPc \in {"phone", "cc"} => requests = loops + 1
    /\ \A k \in DOMAIN allRecs : allRecs[k].id = k /\ allRecs[k].source = source

C30_PageOrderPreserved == []C30_State /\ [][C30_Step]_vars

\* a list of two records of two pages, the second page requested with the
\* token of the first
C30_Witness ==
    /\ fetchPc = "done"
    /\ error = NULL
    /\ loops >= 2
    /\ Len(data.recordings) = 2
    /\ data.recordings[1].cursor = NULL
    /\ data.recordings[2].cursor \in Tokens

\* ---------------------------------------------------------------------
\* Properties of the queues of the pools, of the routing of deletes and
\* of the batches
\* ---------------------------------------------------------------------
\* the units a pool has in hand: those of its pullers that have not returned
InHand(ws) == {ws[w] : w \in {v \in DOMAIN ws : ~Returned(ws[v])}}

\* no two pullers of a pool hold the same unit
NoSharedUnit(ws) ==
    \A v, w \in DOMAIN ws : (v # w /\ ~Returned(ws[v])) => ws[v] # ws[w]

\* C31: in the meetings fan-out and in runLimited the units leave the
\* shared queue in FIFO order and each is started exactly once: the units
\* started are always the first ones of the list, none started twice, no
\* two pullers hold the same unit, a puller that goes on takes the first
\* unit not yet taken, and when the pool has finished every unit (user,
\* task) was started exactly once.
C31_State ==
    /\ hPc \in {"fanout", "ret_debug_user_recordings", "ret_meetings"} =>
          /\ \A u \in DOMAIN fetched : fetched[u] = IF u <= idx THEN 1 ELSE 0
          /\ DOMAIN fetched = DOMAIN users
          /\ idx <= Len(users)
          /\ NoSharedUnit(workers)
          /\ InHand(workers) \subseteq 1..idx
          /\ AllReturned => idx = Len(users)
    /\ rlPc \in {"running", "done"} =>
          LET n == Len(rlStarted)
              taken == n - Len(queue)
          IN /\ \A t \in 1..n : rlStarted[t] = IF t <= taken THEN 1 ELSE 0
             /\ queue = [j \in 1..Len(queue) |-> taken + j]
             /\ NoSharedUnit(rlWorkers)
             /\ InHand(rlWorkers) \subseteq 1..taken
             /\ rlPc = "done" => taken = n

C31_Step ==
    /\ \A w \in DOMAIN workers :
          (hPc = "fanout" /\ workers'[w] # workers[w] /\ ~Returned(workers'[w]))
              => /\ workers'[w] = idx + 1
                 /\ idx' = idx + 1
    /\ \A w \in DOMAIN rlWorkers :
          (rlPc = "running" /\ rlWorkers'[w] # rlWorkers[w] /\ ~Returned(rlWorkers'[w]))
              => /\ rlWorkers'[w] = Head(queue)
                 /\ queue' = Tail(queue)

C31_FifoExactlyOnce == []C31_State /\ [][C31_Step]_vars

\* both pools at work on more units than pullers, a puller already on a
\* unit taken after the first round
C31_WitnessFanOut ==
    /\ hPc = "fanout"
    /\ Len(users) > concurrency
    /\ \E w \in DOMAIN workers : workers[w] > concurrency
    /\ idx = Len(users)

C31_Witness ==
    /\ rlPc = "running"
    /\ Len(rlStarted) > summaryLimit
    /\ queue = <<>>
    /\ \E w \in DOMAIN rlWorkers : rlWorkers[w] > summaryLimit

\* the record for which the n-th delete request was sent
RecordOf(n) == batches[sent[n].batch].toDelete[sent[n].item + 1]

\* C32: every delete request goes to the removal endpoint of the source of
\* its record: for a phone record the phone endpoint with recordingId the
\* id of the record, for a meeting record the meeting endpoint with its
\* meetingId and action trash; no request is sent for a record of another
\* source, and none with an absent identifier.
C32_RoutedBySource ==
    \A n \in DOMAIN sent :
        LET rec == RecordOf(n)
        IN /\ rec.source \in {"phone", "meetings"}
           /\ rec.source = "phone" =>
                 /\ sent[n].endpoint = "/api/phone/recordings/delete"
                 /\ sent[n].body = [recordingId |-> rec.id]
                 /\ Truthy(rec.id)
           /\ rec.source = "meetings" =>
                 /\ sent[n].endpoint = "/api/meeting/recordings/delete"
                 /\ sent[n].body = [meetingId |-> rec.meetingId, action |-> "trash"]
                 /\ Truthy(rec.meetingId)

\* a batch of phone records has sent its requests, one record lacking its id
C32_Witness ==
    /\ sent # <<>>
    /\ \A n \in DOMAIN sent : RecordOf(n).source = "phone"
    /\ \E k \in DOMAIN batches :
          /\ batches[k].pc = "finished"
          /\ \E j \in DOMAIN batches[k].toDelete : ~Truthy(batches[k].toDelete[j].id)
          /\ \E j \in DOMAIN batches[k].toDelete : batches[k].outcomes[j] = "success"

\* batch k is running: its loop or its refetch is awaited
Running(k) == batches[k].pc \in {"await_timeout", "await_fetch", "await_refetch"}

\* C33: while a batch is running deleteProgress is not null and describes
\* that batch (its total and the number of its items finished), also when
\* the discard timer of an earlier batch is still pending.
C33_ProgressOfRunningBatch ==
    \A k \in DOMAIN batches :
        Running(k) =>
            /\ deleteProgress # None
            /\ deleteProgress.total = Len(batches[k].toDelete)
            /\ deleteProgress.done = batches[k].i

\* the batches that are running
RunningBatches == {k \in DOMAIN batches : Running(k)}

\* C34: at most one bulk delete batch runs at a time. deleting is true
\* exactly while a batch runs, the running batch is the one started last,
\* and while deleting is true no step starts a batch or replaces the
\* pending list, so the delete requests of two batches never interleave
\* and every progress update is the one of the running batch.
C34_State ==
    /\ Cardinality(RunningBatches) <= 1
    /\ deleting <=> RunningBatches # {}
    /\ RunningBatches \subseteq {Len(batches)}
    /\ \A m, n \in DOMAIN sent : m < n => sent[m].batch <= sent[n].batch
    /\ inFlight <= 1

C34_Step ==
    deleting =>
        /\ Len(batches') = Len(batches)
        /\ pendingDelete' \in {pendingDelete, <<>>}
        /\ \A k \in DOMAIN batches : ~Running(k) => batches'[k] = batches[k]
        /\ deleteProgress' \in
              {deleteProgress, None,
               [total |-> Len(batches'[Len(batches)].toDelete),
                done |-> batches'[Len(batches)].i]}
        /\ Len(sent') > Len(sent) => sent'[Len(sent')].batch = Len(batches)

C34_OneBatchAtATime == []C34_State /\ [][C34_Step]_vars

\* a second batch runs with a request in flight after a first one that
\* sent requests too, while a record is selected
C34_Witness ==
    /\ Len(batches) = 2
    /\ Running(2)
    /\ batches[1].pc = "finished"
    /\ inFlight = 1
    /\ selectedCount > 0
    /\ \E n \in DOMAIN sent : sent[n].batch = 1

\* ---------------------------------------------------------------------
\* Properties of the delete modal and of paging
\* ---------------------------------------------------------------------
\* the rows of the filtered list whose key is selected
SelectedRows ==
    LET f == filteredRecordings
    IN {k \in DOMAIN f : makeRecordKey(f[k], k - 1) \in selectedKeys}

\* the j-th smallest row of S
NthRow(S, j) == CHOOSE k \in S : Cardinality({i \in S : i < k}) = j - 1

\* the modal opens, or its pending list is replaced
ModalOpens ==
    \/ ~showDeleteModal /\ showDeleteModal'
    \/ pendingDelete' # pendingDelete /\ pendingDelete' # <<>>

\* C35: when the delete modal opens its pending list holds exactly the
\* records of the current filtered list whose key is selected, in the
\* order of the list: no record that the search text or the auto-delete
\* filter hides, as many records as the selected count displayed; and
\* while no visible record is selected the modal does not open and the
\* pending list is not filled.
C35_Step ==
    /\ ModalOpens =>
          /\ showDeleteModal'
          /\ Len(pendingDelete') = Cardinality(SelectedRows)
          /\ Len(pendingDelete') = selectedCount
          /\ \A j \in DOMAIN pendingDelete' :
                /\ pendingDelete'[j] = filteredRecordings[NthRow(SelectedRows, j)]
                /\ matchesQuery(pendingDelete'[j], normalizedQuery)
                /\ matchesAutoDelete(pendingDelete'[j], autoDeleteFilter)
    /\ SelectedRows = {} => ~ModalOpens

C35_State == showDeleteModal => pendingDelete # <<>>

C35_ModalCapturesVisibleSelection == []C35_State /\ [][C35_Step]_vars

\* the modal is open on fewer records than keys are selected: a selected
\* record is hidden by the search text or by the auto-delete filter
C35_Witness ==
    /\ showDeleteModal
    /\ Len(pendingDelete) = 1
    /\ Cardinality(selectedKeys) = 2
    /\ Len(filteredRecordings) = 1
    /\ Len(recordings) = 2

\* C36: the page index displayed is always valid: it lies between 0 and
\* totalPages - 1, and the page displayed holds a record whenever the
\* filtered list holds one, whatever navigation, page-size change, query
\* or filter change, search or demo deletion came before.
C36_PageIndexValid ==
    /\ 0 <= safePageIndex
    /\ safePageIndex <= totalPages - 1
    /\ totalPages >= 1
    /\ totalFiltered > 0 => PageRows # {}
    /\ PageRows \subseteq DOMAIN filteredRecordings

\* after a demo deletion on the last page the stored page index lies
\* beyond the last page and the page displayed is not the first one
C36_Witness ==
    /\ demoMode
    /\ \E k \in DOMAIN batches : batches[k].pc = "finished"
    /\ pageIndex >= totalPages
    /\ safePageIndex > 0
    /\ PageRows # {}

\* a click on Prev page, a click on Next page
PrevClicked == handlePrevPage
NextClicked == handleNextPage

\* C37: whenever the page displayed is not the first one, a click on Prev
\* page moves the display back by exactly one page, and whenever it is not
\* the last one, a click on Next page moves it forward by exactly one
\* page, also after the filtered list has shrunk since the last navigation.
C37_PagerMovesOnePage ==
    [][/\ PrevClicked => safePageIndex' = safePageIndex - 1
       /\ NextClicked => safePageIndex' = safePageIndex + 1]_vars

\* ---------------------------------------------------------------------
\* Properties of the download proxy
\* ---------------------------------------------------------------------
\* the url parameter is allow-listed: a text that parses as a URL of host
\* zoom.us whose path starts with /v2/phone/recording/download
AllowListed(t) ==
    /\ t.kind = "text"
    /\ t.scheme # ""
    /\ toLowerCase(t.host) = ZoomHost
    /\ LET path == pathnameOf(t.segs)
       IN /\ Len(path) >= Len(DownloadPrefix)
          /\ \A k \in 1..Len(DownloadPrefix) : path[k] = DownloadPrefix[k]

\* C38: the download proxy gives the bearer token to allow-listed targets
\* only: for a url parameter that is missing, does not parse, names a host
\* other than zoom.us or a path that does not start with
\* /v2/phone/recording/download, the handler returns 400 and neither calls
\* getZoomAccessToken nor sends an upstream request; every upstream
\* request goes to host zoom.us and a path under the prefix.
C38_State ==
    /\ ~AllowListed(target) =>
          /\ tokenCalls = 0
          /\ upstreamFetches = <<>>
          /\ dlPc \in {"request", "ret_missing", "ret_invalid", "ret_blocked"}
          /\ dlPc # "request" => dlResponse.status = 400
    /\ \A n \in DOMAIN upstreamFetches :
          /\ upstreamFetches[n].url.hostname = ZoomHost
          /\ SubSeq(upstreamFetches[n].url.pathname, 1, Len(DownloadPrefix)) = DownloadPrefix
    /\ Len(upstreamFetches) <= 1

C38_Step == (dlPc = "request" /\ ~AllowListed(target)) => dlPc' # "request"

C38_OnlyAllowListedTargets == []C38_State /\ [][C38_Step]_vars

\* a url on another host, under the download path, was answered 400
C38_Witness ==
    /\ dlPc = "ret_blocked"
    /\ target.host = ZoomPrefixedHost
    /\ target.userinfo = ZoomHost
    /\ startsWith(zoomUrl.pathname, DownloadPrefix)
    /\ dlResponse.status = 400
    /\ tokenCalls = 0

\* ---------------------------------------------------------------------
\* Client: the cursor-paged view of App.tsx
\* ---------------------------------------------------------------------
\* most tokens the stack of previous tokens holds in the model
MaxPrevTokens == 2

SourceFilter == {"phone", "meetings", "both"}

paginationDisabled == appSource = "both"

\* the request of one page: next_page_token is set only for a non-empty tokenOverride
PageRequest(endpoint, tokenOverride) ==
    [endpoint |-> endpoint,
     next_page_token |-> IF Truthy(tokenOverride) THEN tokenOverride ELSE UNDEFINED]

fetchPhonePage(tokenOverride) == PageRequest("/api/phone/recordings", tokenOverride)

fetchMeetingPage(tokenOverride) == PageRequest("/api/meeting/recordings", tokenOverride)

\* the requests a call of fetchRecordings sends for a source
RequestsOf(src, tokenOverride) ==
    IF src = "phone" THEN <<fetchPhonePage(tokenOverride)>>
    ELSE IF src = "meetings" THEN <<fetchMeetingPage(tokenOverride)>>
    ELSE <<fetchPhonePage(NULL), fetchMeetingPage(NULL)>>

\* fetchRecordings up to its await: the call reads source of the render it was made in
fetchRecordings(tokenOverride) ==
    /\ appLoading' = TRUE
    /\ appError' = NULL
    /\ appFetch' = [source |-> appSource,
                    requests |-> RequestsOf(appSource, tokenOverride)]

\* fetchRecordings from the responses on: try body or catch, then finally
fetchSettled(ok, tok) ==
    /\ appFetch # None
    /\ IF ~ok
       THEN /\ appError' = "http"
            /\ UNCHANGED <<appData, appNextToken, prevTokens, currentToken>>
       ELSE IF appFetch.source \in {"phone", "meetings"}
       THEN /\ appData' = [requests |-> appFetch.requests,
                           next_page_token |-> Coalesce(tok, NULL)]
            /\ appNextToken' = Coalesce(tok, NULL)
            /\ UNCHANGED <<appError, prevTokens, currentToken>>
       ELSE /\ appData' = [requests |-> appFetch.requests, next_page_token |-> NULL]
            /\ appNextToken' = NULL
            /\ prevTokens' = <<>>
            /\ currentToken' = NULL
            /\ UNCHANGED appError
    /\ appLoading' = FALSE
    /\ appFetch' = None
    /\ UNCHANGED appSource
    /\ UNCHANGED notLegacy

\* the Source select
onSourceChange(val) ==
    /\ appSource' = val
    /\ prevTokens' = <<>>
    /\ currentToken' = NULL
    /\ appNextToken' = NULL
    /\ UNCHANGED <<appLoading, appError, appData, appFetch>>
    /\ UNCHANGED notLegacy

\* the Search button is disabled while loading
handleSearch ==
    /\ ~appLoading
    /\ prevTokens' = <<>>
    /\ currentToken' = NULL
    /\ fetchRecordings(NULL)
    /\ UNCHANGED <<appSource, appData, appNextToken>>
    /\ UNCHANGED notLegacy

\* the Next button
NextEnabled == ~(paginationDisabled \/ ~Truthy(appNextToken) \/ appLoading)

\* the Previous button
PrevEnabled == ~(paginationDisabled \/ Len(prevTokens) = 0 \/ appLoading)

\* currentToken || ""
Pushed(prev, cur) == Append(prev, IF Truthy(cur) THEN cur ELSE "")

handleNext ==
    /\ NextEnabled
    /\ Len(prevTokens) < MaxPrevTokens
    /\ Truthy(appNextToken)
    /\ prevTokens' = Pushed(prevTokens, currentToken)
    /\ currentToken' = appNextToken
    /\ fetchRecordings(appNextToken)
    /\ UNCHANGED <<appSource, appData, appNextToken>>
    /\ UNCHANGED notLegacy

\* newPrev after newPrev.pop()
newPrev(prev) == SubSeq(prev, 1, Len(prev) - 1)

\* newPrev.pop() || null
last(prev) == IF Truthy(prev[Len(prev)]) THEN prev[Len(prev)] ELSE NULL

handlePrev ==
    /\ PrevEnabled
    /\ Len(prevTokens) # 0
    /\ prevTokens' = newPrev(prevTokens)
    /\ currentToken' = last(prevTokens)
    /\ fetchRecordings(last(prevTokens))
    /\ UNCHANGED <<appSource, appData, appNextToken>>
    /\ UNCHANGED notLegacy

\* the view once its mount effect has called fetchRecordings(null)
InitLegacy ==
    /\ source = "phone"
    /\ demoMode = FALSE
    /\ ClientIdle
    /\ HandlerIdle
    /\ PoolsIdle
    /\ AppIdle
    /\ appSource = "phone"
    /\ appLoading = TRUE
    /\ appError = NULL
    /\ appData = None
    /\ appNextToken = NULL
    /\ prevTokens = <<>>
    /\ currentToken = NULL
    /\ appFetch = [source |-> "phone", requests |-> RequestsOf("phone", NULL)]

NextLegacy ==
    \/ \E val \in SourceFilter : onSourceChange(val)
    \/ handleSearch
    \/ handleNext
    \/ handlePrev
    \/ \E ok \in BOOLEAN : \E tok \in TokenValues : fetchSettled(ok, tok)

SpecLegacy == InitLegacy /\ [][NextLegacy]_vars

\* ---------------------------------------------------------------------
\* C39
\* ---------------------------------------------------------------------
\* the request handlePrev would send from a stack of previous tokens
PrevRequests(src, prev) == RequestsOf(src, last(prev))

\* Next followed by Prev: the Prev computed from the state Next leaves gives back the
\* stack and the current token, and requests the page of that current token
C39_RoundTrip ==
    [][handleNext =>
         /\ newPrev(prevTokens') = prevTokens
         /\ last(prevTokens') = currentToken
         /\ PrevRequests(appSource', prevTokens') = RequestsOf(appSource, currentToken)]_vars

\* between Next and Prev the response of the Next request leaves both untouched
C39_SettleKeepsTokens ==
    [][(\E ok \in BOOLEAN : \E tok \in TokenValues : fetchSettled(ok, tok))
         /\ appFetch.source # "both"
         => UNCHANGED <<prevTokens, currentToken>>]_vars

\* a new search resets the stack of previous tokens and the current token
C39_SearchResets ==
    [][handleSearch => prevTokens' = <<>> /\ currentToken' = NULL]_vars

\* in combined mode neither pager button can be used
C39_BothNoNavigation ==
    paginationDisabled => ~NextEnabled /\ ~PrevEnabled

\* in combined mode the next token is empty
C39_BothNextTokenEmpty ==
    paginationDisabled => ~Truthy(appNextToken)

\* C39: in the cursor-paged view Next followed by Prev restores the current token
\* and the stack of previous tokens and requests the same page again, a new search
\* resets the stack and the current token, and in combined (both) mode the next
\* token is always empty, so that no cursor navigation is possible
C39_CursorNavigation ==
    /\ C39_RoundTrip
    /\ C39_SettleKeepsTokens
    /\ C39_SearchResets
    /\ [](C39_BothNoNavigation /\ C39_BothNextTokenEmpty)

====
